---------------------------- MODULE Spec2Model ----------------------------
(***************************************************************************)
(* The task API of AI-TodoList: the tasks table (supabase-schema.sql), the *)
(* route handlers /api/tasks, /api/tasks/[id] and /api/tasks/breakdown,    *)
(* and the parser of the generator's reply.  A handler is a sequence of    *)
(* steps, one per awaited call (store or generator); the steps of          *)
(* concurrent requests interleave.                                         *)
(***************************************************************************)
EXTENDS Integers, Sequences, FiniteSets, TLC

VARIABLES
    tasks,      \* the tasks table: a function from the ids present to rows
    nextId,     \* the BIGSERIAL sequence of tasks.id
    apiKey,     \* whether DEEPSEEK_API_KEY is configured (fixed per process)
    h           \* per handler: the request it serves, its locals, its response

vars == <<tasks, nextId, apiKey, h>>

(***************************************************************************)
(* Bounds of the model.                                                    *)
(***************************************************************************)
\* Inserts are refused by the model once the id sequence has passed MaxId.
MaxId == 2

\* The concurrent request handlers.
Handlers == {"h1", "h2"}

(***************************************************************************)
(* Values of request bodies (JSON values as JavaScript sees them).  Text   *)
(* is a sequence of one-character strings.                                 *)
(***************************************************************************)
Undefined == [t |-> "undefined"]
Null == [t |-> "null"]
Num(n) == [t |-> "number", n |-> n, int |-> TRUE]
\* a number with a fractional part, n + 1/2
NonInt(n) == [t |-> "number", n |-> n, int |-> FALSE]
Str(s) == [t |-> "string", s |-> s]

\* SQL NULL in the parent_id and description columns.  Ids are positive
\* (BIGSERIAL), so 0 is free to stand for NULL in parent_id.
NULL == 0

IsStr(v) == v.t = "string"
IsNum(v) == v.t = "number"
\* Number.isInteger
IsInteger(v) == v.t = "number" /\ v.int
\* JavaScript truthiness of a body value
Truthy(v) ==
    CASE v.t = "undefined" -> FALSE
      [] v.t = "null" -> FALSE
      [] v.t = "number" -> ~(v.int /\ v.n = 0)
      [] v.t = "string" -> IF "s" \in DOMAIN v THEN v.s # <<>> ELSE v.tok # ""
      [] OTHER -> TRUE

(***************************************************************************)
(* Text helpers.                                                           *)
(***************************************************************************)
Digits == <<"0", "1", "2", "3", "4", "5", "6", "7", "8", "9">>
IsDigit(c) == \E i \in 1..10 : Digits[i] = c
DigitVal(c) == (CHOOSE i \in 1..10 : Digits[i] = c) - 1
\* \s of a JavaScript regular expression and of String.prototype.trim
IsSpace(c) == c \in {" ", "\n", "\t", "\r"}

RECURSIVE TrimStart(_)
TrimStart(s) ==
    IF s # <<>> /\ IsSpace(Head(s)) THEN TrimStart(Tail(s)) ELSE s

RECURSIVE TrimEnd(_)
TrimEnd(s) ==
    IF s # <<>> /\ IsSpace(s[Len(s)]) THEN TrimEnd(SubSeq(s, 1, Len(s) - 1)) ELSE s

Trim(s) == TrimEnd(TrimStart(s))

\* a text of n copies of c
Repeat(c, n) == [i \in 1..n |-> c]

RECURSIVE DigitsPrefix(_, _)
\* the value of the longest prefix of digits of s, continuing from acc
DigitsPrefix(s, acc) ==
    IF s # <<>> /\ IsDigit(Head(s))
    THEN DigitsPrefix(Tail(s), 10 * acc + DigitVal(Head(s)))
    ELSE acc

\* parseInt(s): leading white space, an optional sign, then digits; NaN when
\* no digit follows.
ParseInt(s) ==
    LET t == TrimStart(s)
        neg == t # <<>> /\ Head(t) = "-"
        u == IF t # <<>> /\ Head(t) \in {"-", "+"} THEN Tail(t) ELSE t
    IN  IF u = <<>> \/ ~IsDigit(Head(u))
        THEN [nan |-> TRUE, v |-> 0]
        ELSE [nan |-> FALSE,
              v |-> IF neg THEN 0 - DigitsPrefix(u, 0) ELSE DigitsPrefix(u, 0)]


Uppers == <<"A", "B", "C", "D", "E", "F", "G", "H", "I", "J", "K", "L", "M",
            "N", "O", "P", "Q", "R", "S", "T", "U", "V", "W", "X", "Y", "Z">>
Lowers == <<"a", "b", "c", "d", "e", "f", "g", "h", "i", "j", "k", "l", "m",
            "n", "o", "p", "q", "r", "s", "t", "u", "v", "w", "x", "y", "z">>
\* the character as a case-insensitive regular expression compares it
Lower(c) ==
    IF \E i \in 1..26 : Uppers[i] = c
    THEN Lowers[CHOOSE i \in 1..26 : Uppers[i] = c]
    ELSE c
LowerText(s) == [i \in 1..Len(s) |-> Lower(s[i])]

Drop(s, n) == SubSeq(s, n + 1, Len(s))
StartsWith(s, pat) == Len(s) >= Len(pat) /\ SubSeq(s, 1, Len(pat)) = pat
EndsWith(s, pat) ==
    Len(s) >= Len(pat) /\ SubSeq(s, Len(s) - Len(pat) + 1, Len(s)) = pat
\* pat is in lower case
StartsWithCI(s, pat) == StartsWith(LowerText(s), pat)

\* A TLA+ string cannot hold a backquote or a bullet: "^" stands for the
\* backquote and "@" for the bullet; the texts of the model use neither
\* character for itself.
Tick == "^"
Bullet == "@"
Fence == <<Tick, Tick, Tick>>
FenceJson == Fence \o <<"j", "s", "o", "n">>

RECURSIVE RemoveAll(_, _)
\* s.replace(/pat/gi, ''), pat in lower case
RemoveAll(s, pat) ==
    IF s = <<>> THEN <<>>
    ELSE IF StartsWithCI(s, pat) THEN RemoveAll(Drop(s, Len(pat)), pat)
    ELSE <<Head(s)>> \o RemoveAll(Tail(s), pat)

RECURSIVE Split(_, _)
\* s.split('\n'); cur is the line being read
Split(s, cur) ==
    IF s = <<>> THEN <<cur>>
    ELSE IF Head(s) = "\n" THEN <<cur>> \o Split(Tail(s), <<>>)
    ELSE Split(Tail(s), Append(cur, Head(s)))

RECURSIVE StripStart(_, _)
\* s without its longest prefix of characters of the class cls
StripStart(s, cls) ==
    IF s # <<>> /\ (Head(s) \in cls \/ IsSpace(Head(s)))
    THEN StripStart(Tail(s), cls) ELSE s

RECURSIVE StripEnd(_, _)
StripEnd(s, cls) ==
    IF s # <<>> /\ (s[Len(s)] \in cls \/ IsSpace(s[Len(s)]))
    THEN StripEnd(SubSeq(s, 1, Len(s) - 1), cls) ELSE s

\* s.replace(/^["'\[,\s]+|["'\]\s,]+$/g, ''): the leading run is removed
\* first, then the run that ends the text
StripQuotes(s) ==
    StripEnd(StripStart(s, {"\"", "'", "[", ","}), {"\"", "'", "]", ","})

RECURSIVE Unescape(_)
\* s.replace(/\\"/g, '"')
Unescape(s) ==
    IF s = <<>> THEN <<>>
    ELSE IF StartsWith(s, <<"\\", "\"">>) THEN <<"\"">> \o Unescape(Drop(s, 2))
    ELSE <<Head(s)>> \o Unescape(Tail(s))

\* seq.slice(0, n)
Slice(seq, n) == SubSeq(seq, 1, IF Len(seq) < n THEN Len(seq) ELSE n)

\* s.match(/\[[\s\S]*?\]/): from the first "[" to the first "]" after it
ArrayMatch(s) ==
    LET opens == {i \in 1..Len(s) : s[i] = "["}
    IN  IF opens = {} THEN [found |-> FALSE, text |-> <<>>]
        ELSE LET i == CHOOSE k \in opens : \A m \in opens : k <= m
                 closes == {j \in (i + 1)..Len(s) : s[j] = "]"}
             IN  IF closes = {} THEN [found |-> FALSE, text |-> <<>>]
                 ELSE [found |-> TRUE,
                       text |-> SubSeq(s, i,
                                       CHOOSE k \in closes : \A m \in closes : k <= m)]

(***************************************************************************)
(* JSON.parse, on texts of letters, digits, white space and the            *)
(* punctuation " ' [ ] , . - + * ^ \ (no braces; of the escapes, \" \\ \/  *)
(* \n \t \r).  A parse answers [ok, val, rest]: the value read and the     *)
(* text after it.                                                          *)
(***************************************************************************)
JsonFail == [ok |-> FALSE, val |-> Null, rest |-> <<>>]
JsonOk(val, rest) == [ok |-> TRUE, val |-> val, rest |-> rest]

RECURSIVE JsonString(_, _)
\* after the opening quote: the characters up to the closing quote; a raw
\* control character (a line break, a tab) is not allowed inside
JsonString(s, acc) ==
    IF s = <<>> THEN JsonFail
    ELSE IF Head(s) = "\"" THEN JsonOk(Str(acc), Tail(s))
    ELSE IF Head(s) = "\\"
    THEN IF Len(s) < 2 THEN JsonFail
         ELSE IF s[2] \in {"\"", "\\", "/"}
         THEN JsonString(Drop(s, 2), Append(acc, s[2]))
         ELSE IF s[2] = "n" THEN JsonString(Drop(s, 2), Append(acc, "\n"))
         ELSE IF s[2] = "t" THEN JsonString(Drop(s, 2), Append(acc, "\t"))
         ELSE IF s[2] = "r" THEN JsonString(Drop(s, 2), Append(acc, "\r"))
         ELSE JsonFail
    ELSE IF Head(s) \in {"\n", "\t", "\r"} THEN JsonFail
    ELSE JsonString(Tail(s), Append(acc, Head(s)))

RECURSIVE SkipDigits(_)
SkipDigits(s) == IF s # <<>> /\ IsDigit(Head(s)) THEN SkipDigits(Tail(s)) ELSE s

\* -?(0|[1-9][0-9]*)(\.[0-9]+)?([eE][+-]?[0-9]+)?: the text after the number
JsonNumber(s) ==
    LET a == IF s # <<>> /\ Head(s) = "-" THEN Tail(s) ELSE s
        b == IF a # <<>> /\ Head(a) = "0" THEN Tail(a) ELSE SkipDigits(a)
        c == IF Len(b) >= 2 /\ b[1] = "." /\ IsDigit(b[2])
             THEN SkipDigits(Tail(b)) ELSE b
        d == IF c # <<>> /\ c[1] \in {"e", "E"}
             THEN LET x == IF Len(c) >= 2 /\ c[2] \in {"+", "-"}
                           THEN Drop(c, 2) ELSE Tail(c)
                  IN  IF x # <<>> /\ IsDigit(Head(x)) THEN SkipDigits(x) ELSE <<"!">>
             ELSE c
    IN  IF a = <<>> \/ ~IsDigit(Head(a)) \/ d = <<"!">> THEN JsonFail
        ELSE JsonOk([t |-> "number"], d)

RECURSIVE JsonValue(_)
RECURSIVE JsonElements(_, _)
\* a value, at the start of s
JsonValue(s) ==
    IF s = <<>> THEN JsonFail
    ELSE IF Head(s) = "\"" THEN JsonString(Tail(s), <<>>)
    ELSE IF Head(s) = "["
    THEN LET r == TrimStart(Tail(s))
         IN  IF r # <<>> /\ Head(r) = "]"
             THEN JsonOk([t |-> "array", items |-> <<>>], Tail(r))
             ELSE JsonElements(r, <<>>)
    ELSE IF StartsWith(s, <<"t", "r", "u", "e">>)
    THEN JsonOk([t |-> "boolean"], Drop(s, 4))
    ELSE IF StartsWith(s, <<"f", "a", "l", "s", "e">>)
    THEN JsonOk([t |-> "boolean"], Drop(s, 5))
    ELSE IF StartsWith(s, <<"n", "u", "l", "l">>) THEN JsonOk(Null, Drop(s, 4))
    ELSE JsonNumber(s)

\* the elements of an array after "[" and those read so far, up to "]"
JsonElements(s, acc) ==
    LET v == JsonValue(s)
        r == TrimStart(v.rest)
    IN  IF ~v.ok \/ r = <<>> THEN JsonFail
        ELSE IF Head(r) = "]"
        THEN JsonOk([t |-> "array", items |-> Append(acc, v.val)], Tail(r))
        ELSE IF Head(r) = ","
        THEN JsonElements(TrimStart(Tail(r)), Append(acc, v.val))
        ELSE JsonFail

\* JSON.parse(text): ~ok when it throws
JsonParse(text) ==
    LET v == JsonValue(TrimStart(text))
    IN  IF v.ok /\ TrimStart(v.rest) = <<>> THEN v ELSE JsonFail

(***************************************************************************)
(* The store: table tasks of supabase-schema.sql.                          *)
(***************************************************************************)
TaskStatuses == {"pending", "completed"}
TaskPriorities == {"low", "medium", "high"}
\* a status or priority text of a request body
Tok(name) == [t |-> "string", tok |-> name]

\* A table without the foreign key: every parent_id is accepted.
FkOkUnchecked(t, parent) == TRUE

\* parent_id BIGINT REFERENCES tasks(id): NULL, or the id of a row of t
FkOk(t, parent) == parent = NULL \/ parent \in DOMAIN t

\* The rows an INSERT of the list `data` creates: ids are drawn from the
\* sequence in order, created_at is NOW() of the statement (the same for
\* every row of the statement), modelled by the sequence value at its start.
NewRows(nid, data) ==
    [i \in 1..Len(data) |->
        [id |-> nid + i - 1,
         title |-> data[i].title,
         description |-> data[i].description,
         status |-> data[i].status,
         priority |-> data[i].priority,
         parent_id |-> data[i].parent_id,
         created_at |-> nid]]

\* A store that keeps the first row of a statement that fails.
InsertAllPartial(t, rows, ok) ==
    LET kept == IF ok THEN rows ELSE SubSeq(rows, 1, 1)
    IN  [i \in DOMAIN t \cup {kept[k].id : k \in 1..Len(kept)} |->
            IF i \in DOMAIN t THEN t[i]
            ELSE kept[CHOOSE k \in 1..Len(kept) : kept[k].id = i]]

\* The rows of `rows` added to the table, all of them or (on failure) none.
InsertAll(t, rows, ok) ==
    IF ok
    THEN [i \in DOMAIN t \cup {rows[k].id : k \in 1..Len(rows)} |->
            IF i \in DOMAIN t THEN t[i]
            ELSE rows[CHOOSE k \in 1..Len(rows) : rows[k].id = i]]
    ELSE t

\* supabase.from('tasks').insert(data).select(): one statement.  It fails as
\* a whole when a row violates the foreign key (or the store fails, ~up).
StoreInsert(t, nid, data, up) ==
    LET rows == NewRows(nid, data)
        ok == up /\ \A i \in 1..Len(data) : FkOk(t, data[i].parent_id)
    IN  [ok |-> ok,
         tasks |-> InsertAll(t, rows, ok),
         rows |-> IF ok THEN rows ELSE <<>>]

\* The column value of a validated parent_id of updateData.
ParentColumn(v) == IF v.t = "null" THEN NULL ELSE v.n

\* An update that replaces the row: the fields that updateData lacks are
\* set to their column defaults.
ApplyUpdateReplace(row, upd) ==
    [id |-> row.id,
     title |-> IF "title" \in DOMAIN upd THEN upd.title ELSE row.title,
     description |->
        IF "description" \in DOMAIN upd THEN upd.description ELSE Null,
     status |-> IF "status" \in DOMAIN upd THEN upd.status ELSE "pending",
     priority |-> IF "priority" \in DOMAIN upd THEN upd.priority ELSE "medium",
     parent_id |->
        IF "parent_id" \in DOMAIN upd THEN ParentColumn(upd.parent_id) ELSE NULL,
     created_at |-> row.created_at]

\* The row with the fields of updateData applied; the others keep their value.
ApplyUpdate(row, upd) ==
    [id |-> row.id,
     title |-> IF "title" \in DOMAIN upd THEN upd.title ELSE row.title,
     description |->
        IF "description" \in DOMAIN upd THEN upd.description ELSE row.description,
     status |-> IF "status" \in DOMAIN upd THEN upd.status ELSE row.status,
     priority |-> IF "priority" \in DOMAIN upd THEN upd.priority ELSE row.priority,
     parent_id |->
        IF "parent_id" \in DOMAIN upd THEN ParentColumn(upd.parent_id)
        ELSE row.parent_id,
     created_at |-> row.created_at]

\* supabase.from('tasks').update(updateData).eq('id', id).select(): no row
\* matches an absent id (no error); a matching row whose new parent_id
\* references no row violates the foreign key.  A number below 1 is a value
\* of the column, not NULL, and no row has such an id.
StoreUpdate(t, id, upd, up) ==
    IF ~up THEN [ok |-> FALSE, tasks |-> t, rows |-> <<>>]
    ELSE IF id \notin DOMAIN t THEN [ok |-> TRUE, tasks |-> t, rows |-> <<>>]
    ELSE IF /\ "parent_id" \in DOMAIN upd
            /\ upd.parent_id.t # "null"
            /\ (upd.parent_id.n < 1 \/ ~FkOk(t, upd.parent_id.n))
    THEN [ok |-> FALSE, tasks |-> t, rows |-> <<>>]
    ELSE LET row == ApplyUpdate(t[id], upd)
         IN  [ok |-> TRUE,
              tasks |-> [t EXCEPT ![id] = row],
              rows |-> <<row>>]

RECURSIVE HasAncestor(_, _, _, _)
\* Task a is met on the way up from task i along parent_id, in at most n
\* steps.
HasAncestor(t, i, a, n) ==
    /\ n > 0
    /\ i \in DOMAIN t
    /\ t[i].parent_id # NULL
    /\ (t[i].parent_id = a \/ HasAncestor(t, t[i].parent_id, a, n - 1))

\* the tasks that have task a as an ancestor through parent_id
Descendants(t, a) ==
    {i \in DOMAIN t : HasAncestor(t, i, a, Cardinality(DOMAIN t))}

\* A cascade that stops at the rows that reference the deleted rows.
CascadeChildren(t, S) == S \cup {i \in DOMAIN t : t[i].parent_id \in S}

RECURSIVE Cascade(_, _)
\* ON DELETE CASCADE: the rows deleted with the set S of rows, found by
\* deleting, round after round, the rows that reference a deleted row.
Cascade(t, S) ==
    LET refs == {i \in DOMAIN t : t[i].parent_id \in S}
    IN  IF refs \subseteq S THEN S ELSE Cascade(t, S \cup refs)

\* supabase.from('tasks').delete().eq('id', id)
StoreDelete(t, id, up) ==
    IF ~up THEN [ok |-> FALSE, tasks |-> t]
    ELSE LET gone == Cascade(t, {id} \cap DOMAIN t)
         IN  [ok |-> TRUE, tasks |-> [i \in DOMAIN t \ gone |-> t[i]]]

\* .select(...).eq('id', id).single(): the row, or an error (no row, or the
\* store fails)
StoreSingle(t, id, up) ==
    IF up /\ id \in DOMAIN t THEN [ok |-> TRUE, row |-> t[id]]
    ELSE [ok |-> FALSE, row |-> Null]

\* the orders in which a query may return the rows `ids` under ORDER BY
\* created_at ASC: ascending in created_at, rows of one created_at in any
\* order
AscendingOrders(t, ids) ==
    {f \in [1..Cardinality(ids) -> ids] :
        /\ \A i, j \in 1..Cardinality(ids) : i # j => f[i] # f[j]
        /\ \A i, j \in 1..Cardinality(ids) :
            i < j => t[f[i]].created_at <= t[f[j]].created_at}

\* .select('*').eq('parent_id', id).order('created_at', {ascending: true}):
\* the results the query may have; a store that fails returns no data
StoreChildren(t, id, up) ==
    IF ~up THEN {[ok |-> FALSE, data |-> <<>>]}
    ELSE {[ok |-> TRUE, data |-> [k \in DOMAIN f |-> t[f[k]]]] :
            f \in AscendingOrders(t, {i \in DOMAIN t : t[i].parent_id = id})}

\* A query that returns the rows that pass one of the filters.
MatchesSome(row, filter) ==
    filter = <<>> \/ \E c \in DOMAIN filter : row[c] = filter[c]

\* the row passes every .eq / .is filter of the query
Matches(row, filter) == \A c \in DOMAIN filter : row[c] = filter[c]

RECURSIVE DescendingOrders(_, _)
\* the orders (of ids) in which a query may return the rows `ids` under
\* ORDER BY created_at DESC: rows of one created_at in any order
DescendingOrders(t, ids) ==
    IF ids = {} THEN {<<>>}
    ELSE LET first == {i \in ids : \A j \in ids : t[j].created_at <= t[i].created_at}
         IN  UNION {{<<i>> \o rest : rest \in DescendingOrders(t, ids \ {i})} :
                        i \in first}

\* .select('*').order('created_at', {ascending: false}) with the filters of
\* the query: the results the query may have.  `valid` is whether the
\* values of the filters are values of their columns.
StoreSelect(t, filter, valid, up) ==
    IF ~up \/ ~valid THEN {[ok |-> FALSE, data |-> <<>>]}
    ELSE {[ok |-> TRUE, data |-> [k \in DOMAIN order |-> t[order[k]]]] :
            order \in DescendingOrders(t, {i \in DOMAIN t : Matches(t[i], filter)})}

(***************************************************************************)
(* Responses: the envelope {success, data, error} and the status.          *)
(***************************************************************************)
successResponse(data, status) ==
    [status |-> status, success |-> TRUE, data |-> data, error |-> Null]

\* An error response that carries the message without the envelope's
\* success flag set to false.
errorResponseAsSuccess(message, status) ==
    [status |-> status, success |-> TRUE, data |-> Null,
     error |-> [t |-> "string", msgs |-> message]]

\* message: the sequence of messages that the code joins with '; '
errorResponse(message, status) ==
    [status |-> status, success |-> FALSE, data |-> Null,
     error |-> [t |-> "string", msgs |-> message]]

Idle == [pc |-> "idle"]
\* A handler that has answered: the request it served and its response.
Done(route, req, resp) == [pc |-> "done", route |-> route, req |-> req, resp |-> resp]
\* A handler waiting for the store or the generator, with its locals.
Waiting(pc, route, req, loc) == [pc |-> pc, route |-> route, req |-> req, loc |-> loc]

(***************************************************************************)
(* Validation (pages/api/tasks/index.ts and pages/api/tasks/[id].ts).      *)
(* A request body is a record of the five recognized fields, Undefined for *)
(* a field the payload does not carry.  Error messages are named.          *)
(***************************************************************************)
MaxTitleLen == 200
MaxDescriptionLen == 1000

\* validStatuses.includes(v), validPriorities.includes(v)
Includes(valid, v) == v.t = "string" /\ "tok" \in DOMAIN v /\ v.tok \in valid

\* A validator whose checks of status, priority and parent_id report nothing.
MsgNone(cond, m) == <<>>

\* one error message, or none
Msg(cond, m) == IF cond THEN <<m>> ELSE <<>>

\* body.description?.trim() || null
DescriptionColumn(v) ==
    IF v.t = "string" /\ Trim(v.s) # <<>> THEN Str(Trim(v.s)) ELSE Null

\* validateId(id) of [id].ts: the id of the path (a text, or Undefined); 0
\* stands for the null it returns.
validateId(id) ==
    IF ~Truthy(id) \/ id.t = "array" THEN 0
    ELSE LET numId == ParseInt(id.s)
         IN  IF numId.nan \/ numId.v <= 0 THEN 0 ELSE numId.v

validateCreateRequest(body) ==
    (IF ~Truthy(body.title) \/ ~IsStr(body.title) THEN <<"title_required">>
     ELSE IF Len(Trim(body.title.s)) = 0 THEN <<"title_empty">>
     ELSE IF Len(body.title.s) > MaxTitleLen THEN <<"title_too_long">>
     ELSE <<>>)
    \o (IF body.description.t \in {"undefined", "null"} THEN <<>>
        ELSE IF ~IsStr(body.description) THEN <<"description_not_string">>
        ELSE IF Len(body.description.s) > MaxDescriptionLen
        THEN <<"description_too_long">>
        ELSE <<>>)
    \o Msg(body.status.t # "undefined" /\ ~Includes(TaskStatuses, body.status),
           "status_invalid")
    \o Msg(body.priority.t # "undefined" /\ ~Includes(TaskPriorities, body.priority),
           "priority_invalid")
    \o Msg(body.parent_id.t \notin {"undefined", "null"} /\ ~IsInteger(body.parent_id),
           "parent_id_not_integer")

\* one field of updateData, or none
Field(cond, name, val) == IF cond THEN name :> val ELSE <<>>

TitleOk(v) == IsStr(v) /\ Len(Trim(v.s)) # 0 /\ Len(v.s) <= MaxTitleLen
DescriptionOk(v) ==
    v.t = "null" \/ (IsStr(v) /\ ~(Truthy(v) /\ Len(v.s) > MaxDescriptionLen))

validateUpdateRequest(body) ==
    [errors |->
        (IF body.title.t = "undefined" THEN <<>>
         ELSE IF ~IsStr(body.title) THEN <<"title_not_string">>
         ELSE IF Len(Trim(body.title.s)) = 0 THEN <<"title_empty">>
         ELSE IF Len(body.title.s) > MaxTitleLen THEN <<"title_too_long">>
         ELSE <<>>)
        \o (IF body.description.t = "undefined" THEN <<>>
            ELSE IF body.description.t # "null" /\ ~IsStr(body.description)
            THEN <<"description_not_string_or_null">>
            ELSE IF Truthy(body.description)
                    /\ Len(body.description.s) > MaxDescriptionLen
            THEN <<"description_too_long">>
            ELSE <<>>)
        \o Msg(body.status.t # "undefined" /\ ~Includes(TaskStatuses, body.status),
               "status_invalid")
        \o Msg(body.priority.t # "undefined"
                   /\ ~Includes(TaskPriorities, body.priority),
               "priority_invalid")
        \o Msg(body.parent_id.t \notin {"undefined", "null"}
                   /\ ~IsInteger(body.parent_id),
               "parent_id_not_integer_or_null"),
     updateData |->
        Field(body.title.t # "undefined" /\ TitleOk(body.title),
              "title", Trim(body.title.s))
        @@ Field(body.description.t # "undefined" /\ DescriptionOk(body.description),
                 "description", DescriptionColumn(body.description))
        @@ Field(Includes(TaskStatuses, body.status), "status", body.status.tok)
        @@ Field(Includes(TaskPriorities, body.priority), "priority", body.priority.tok)
        @@ Field(body.parent_id.t = "null" \/ IsInteger(body.parent_id),
                 "parent_id", body.parent_id)]

(***************************************************************************)
(* Handlers.  Each action is one step of a handler: the code from the      *)
(* request (or from the return of an awaited call) up to and including the *)
(* next awaited call.  `up` is whether the store answers that call.        *)
(***************************************************************************)
\* handler p answers; the table is as it was
Answer(p, route, req, resp) ==
    /\ h' = [h EXCEPT ![p] = Done(route, req, resp)]
    /\ UNCHANGED <<tasks, nextId, apiKey>>

\* handler p goes on to wait for its next call; the table is as it was
Await(p, pc, route, req, loc) ==
    /\ h' = [h EXCEPT ![p] = Waiting(pc, route, req, loc)]
    /\ UNCHANGED <<tasks, nextId, apiKey>>

\* a handler is free to take a request
Free(p) == h[p].pc \in {"idle", "done"}

\* The id sequence advances with every row an INSERT statement attempts,
\* also when the statement then fails on a constraint.
InsertStep(p, route, req, data, up, r, resp) ==
    /\ tasks' = r.tasks
    /\ nextId' = IF up THEN nextId + Len(data) ELSE nextId
    /\ h' = [h EXCEPT ![p] = Done(route, req, resp)]
    /\ UNCHANGED apiKey

----------------------------------------------------------------------------
(* POST /api/tasks *)

\* A handler that ignores the status and priority of the payload.
insertDataDefaults(body) ==
    [title |-> Trim(body.title.s),
     description |-> DescriptionColumn(body.description),
     status |-> "pending",
     priority |-> "medium",
     parent_id |-> IF Truthy(body.parent_id) THEN body.parent_id.n ELSE NULL]

\* insertData of the handler
insertData(body) ==
    [title |-> Trim(body.title.s),
     description |-> DescriptionColumn(body.description),
     status |-> IF Truthy(body.status) THEN body.status.tok ELSE "pending",
     priority |-> IF Truthy(body.priority) THEN body.priority.tok ELSE "medium",
     parent_id |-> IF Truthy(body.parent_id) THEN body.parent_id.n ELSE NULL]

CreatedResponse(r) ==
    IF r.ok THEN successResponse(r.rows[1], 201)
    ELSE errorResponse(<<"create_failed">>, 500)

\* the insert and the response that ends POST /api/tasks
CreateWrite(p, body, up) ==
    LET r == StoreInsert(tasks, nextId, <<insertData(body)>>, up)
    IN  InsertStep(p, "POST /api/tasks", body, <<insertData(body)>>, up,
                   r, CreatedResponse(r))

\* the request arrives: validation, then the parent lookup when the body
\* has a parent_id, else the insert
CreateBegin(p, body, up) ==
    /\ Free(p)
    /\ LET errors == validateCreateRequest(body)
       IN  IF errors # <<>>
           THEN Answer(p, "POST /api/tasks", body, errorResponse(errors, 400))
           ELSE IF Truthy(body.parent_id)
           THEN IF ~StoreSingle(tasks, body.parent_id.n, up).ok
                THEN Answer(p, "POST /api/tasks", body,
                            errorResponse(<<"parent_not_found">>, 400))
                ELSE Await(p, "insert", "POST /api/tasks", body, Null)
           ELSE CreateWrite(p, body, up)

\* the parent lookup has returned: the insert
CreateInsert(p, up) ==
    /\ h[p].pc = "insert"
    /\ CreateWrite(p, h[p].req, up)

----------------------------------------------------------------------------
(* GET /api/tasks *)

NullText == <<"n", "u", "l", "l">>

\* the filters the handler adds to the query: a status or a priority that
\* is not one of the valid values adds none
QueryFilter(query) ==
    Field(Truthy(query.status) /\ Includes(TaskStatuses, query.status),
          "status", query.status.tok)
    @@ Field(Truthy(query.priority) /\ Includes(TaskPriorities, query.priority),
             "priority", query.priority.tok)
    @@ Field(query.parent_id # Undefined, "parent_id",
             IF query.parent_id.s = NullText THEN NULL
             ELSE ParseInt(query.parent_id.s).v)

\* parseInt(parent_id) is a number (NaN is no value of a BIGINT column)
QueryValid(query) ==
    \/ query.parent_id = Undefined
    \/ query.parent_id.s = NullText
    \/ ~ParseInt(query.parent_id.s).nan

\* data as Task[]: the array of the rows of the answer
TaskArray(rows) == [t |-> "array", items |-> rows]

\* the request arrives: one query, answered with the rows or with 500
ListTasks(p, query, up) ==
    /\ Free(p)
    /\ \E q \in StoreSelect(tasks, QueryFilter(query), QueryValid(query), up) :
        Answer(p, "GET /api/tasks", query,
               IF ~q.ok THEN errorResponse(<<"list_failed">>, 500)
               ELSE successResponse(TaskArray(q.data), 200))

----------------------------------------------------------------------------
(* PATCH /api/tasks/[id] *)

\* A handler without the guard against self-parenting.
SelfParentUnguarded(taskId, upd) == FALSE

\* updateData.parent_id === taskId
SelfParent(taskId, upd) == "parent_id" \in DOMAIN upd /\ upd.parent_id = Num(taskId)

\* A handler that sends an update without fields to the store.
EmptyUpdateUnchecked(upd) == FALSE

\* Object.keys(updateData).length === 0
EmptyUpdate(upd) == DOMAIN upd = {}

\* A handler without the guard against a circular parent.
CircularParentUnguarded(parentTask, taskId) == FALSE

\* A guard that walks the whole ancestor chain of the candidate parent.
CircularParentDeep(parentTask, taskId) ==
    \/ parentTask.parent_id = taskId
    \/ HasAncestor(tasks, parentTask.id, taskId, Cardinality(DOMAIN tasks))

\* (parentTask as Task).parent_id === taskId
CircularParent(parentTask, taskId) == parentTask.parent_id = taskId

\* the update and the response that ends PATCH
PatchWrite(p, req, taskId, upd, up) ==
    LET r == StoreUpdate(tasks, taskId, upd, up)
    IN  /\ tasks' = r.tasks
        /\ h' = [h EXCEPT ![p] =
                    Done("PATCH /api/tasks/[id]", req,
                         IF ~r.ok THEN errorResponse(<<"update_failed">>, 500)
                         ELSE IF r.rows = <<>>
                         THEN errorResponse(<<"task_not_found">>, 404)
                         ELSE successResponse(r.rows[1], 200))]
        /\ UNCHANGED <<nextId, apiKey>>

\* the request arrives: validation, the guard against self-parenting, then
\* the parent lookup with the guard against a circular parent when
\* updateData has a parent_id, else the update
PatchBegin(p, id, body, up) ==
    /\ Free(p)
    /\ LET route == "PATCH /api/tasks/[id]"
           req == [id |-> id, body |-> body]
           taskId == validateId(id)
           v == validateUpdateRequest(body)
           upd == v.updateData
       IN  IF taskId = 0
           THEN Answer(p, route, req, errorResponse(<<"invalid_id">>, 400))
           ELSE IF v.errors # <<>>
           THEN Answer(p, route, req, errorResponse(v.errors, 400))
           ELSE IF EmptyUpdate(upd)
           THEN Answer(p, route, req, errorResponse(<<"no_fields">>, 400))
           ELSE IF SelfParent(taskId, upd)
           THEN Answer(p, route, req, errorResponse(<<"self_parent">>, 400))
           ELSE IF "parent_id" \in DOMAIN upd /\ Truthy(upd.parent_id)
           THEN LET q == StoreSingle(tasks, upd.parent_id.n, up)
                IN  IF ~q.ok
                    THEN Answer(p, route, req,
                                errorResponse(<<"parent_not_found">>, 400))
                    ELSE IF CircularParent(q.row, taskId)
                    THEN Answer(p, route, req,
                                errorResponse(<<"circular_parent">>, 400))
                    ELSE Await(p, "update", route, req,
                               [taskId |-> taskId, updateData |-> upd,
                                parentTask |-> [id |-> q.row.id,
                                                parent_id |-> q.row.parent_id]])
           ELSE PatchWrite(p, req, taskId, upd, up)

\* the parent lookup has returned: the update
PatchUpdate(p, up) ==
    /\ h[p].pc = "update"
    /\ PatchWrite(p, h[p].req, h[p].loc.taskId, h[p].loc.updateData, up)

----------------------------------------------------------------------------
(* DELETE /api/tasks/[id] *)

\* the request arrives: the existence check
DeleteBegin(p, id, up) ==
    /\ Free(p)
    /\ LET route == "DELETE /api/tasks/[id]"
           req == [id |-> id]
           taskId == validateId(id)
           q == StoreSingle(tasks, taskId, up)
       IN  IF taskId = 0
           THEN Answer(p, route, req, errorResponse(<<"invalid_id">>, 400))
           ELSE IF ~q.ok
           THEN Answer(p, route, req, errorResponse(<<"task_not_found">>, 404))
           ELSE Await(p, "delete", route, req,
                      [taskId |-> taskId,
                       existingTask |-> [id |-> q.row.id, title |-> q.row.title]])

\* the check has returned: the delete
DeleteExec(p, up) ==
    /\ h[p].pc = "delete"
    /\ LET r == StoreDelete(tasks, h[p].loc.taskId, up)
       IN  /\ tasks' = r.tasks
           /\ h' = [h EXCEPT ![p] =
                       Done("DELETE /api/tasks/[id]", h[p].req,
                            IF ~r.ok THEN errorResponse(<<"delete_failed">>, 500)
                            ELSE successResponse(
                                    [message |-> "deleted",
                                     deleted |-> h[p].loc.existingTask], 200))]
           /\ UNCHANGED <<nextId, apiKey>>

----------------------------------------------------------------------------
(* GET /api/tasks/[id] *)

\* {...task, subtasks}
taskWithSubtasks(task, subtasks) ==
    [f \in DOMAIN task \cup {"subtasks"} |->
        IF f = "subtasks" THEN subtasks ELSE task[f]]

\* the request arrives: the lookup of the task; no row is answered 404
\* (error code PGRST116), another error 500
GetBegin(p, id, up) ==
    /\ Free(p)
    /\ LET route == "GET /api/tasks/[id]"
           req == [id |-> id]
           taskId == validateId(id)
           q == StoreSingle(tasks, taskId, up)
       IN  IF taskId = 0
           THEN Answer(p, route, req, errorResponse(<<"invalid_id">>, 400))
           ELSE IF ~q.ok
           THEN IF up
                THEN Answer(p, route, req, errorResponse(<<"task_not_found">>, 404))
                ELSE Answer(p, route, req, errorResponse(<<"get_failed">>, 500))
           ELSE Await(p, "subtasks", route, req, [taskId |-> taskId, task |-> q.row])

\* the lookup has returned: the query of the subtasks, whose error the
\* handler does not read (subtasks || [])
GetSubtasks(p, up) ==
    /\ h[p].pc = "subtasks"
    /\ \E q \in StoreChildren(tasks, h[p].loc.taskId, up) :
        Answer(p, h[p].route, h[p].req,
               successResponse(taskWithSubtasks(h[p].loc.task, q.data), 200))

----------------------------------------------------------------------------
(* Requests whose method the route does not serve *)

Methods == {"GET", "POST", "PUT", "PATCH", "DELETE"}

\* A handler that sets an empty Allow header.
WithEmptyAllow(resp, allow) == ("allow" :> {}) @@ resp

\* res.setHeader('Allow', allow) before the response is sent
WithAllow(resp, allow) == ("allow" :> allow) @@ resp

\* /api/tasks: any method but GET and POST
TasksOtherMethod(p, method) ==
    /\ Free(p)
    /\ method \notin {"GET", "POST"}
    /\ Answer(p, "/api/tasks", [method |-> method],
              WithAllow(errorResponse(<<"method_not_allowed">>, 405), {"GET", "POST"}))

\* /api/tasks/[id]: any method but GET, PATCH and DELETE; the id is checked
\* before the method
TaskOtherMethod(p, id, method) ==
    /\ Free(p)
    /\ method \notin {"GET", "PATCH", "DELETE"}
    /\ Answer(p, "/api/tasks/[id]", [method |-> method, id |-> id],
              IF validateId(id) = 0 THEN errorResponse(<<"invalid_id">>, 400)
              ELSE WithAllow(errorResponse(<<"method_not_allowed">>, 405),
                             {"GET", "PATCH", "DELETE"}))

\* /api/tasks/breakdown: any method but POST
BreakdownOtherMethod(p, method) ==
    /\ Free(p)
    /\ method # "POST"
    /\ Answer(p, "/api/tasks/breakdown", [method |-> method],
              WithAllow(errorResponse(<<"method_not_allowed">>, 405), {"POST"}))

----------------------------------------------------------------------------
(* POST /api/tasks/breakdown: the parser of the generator's reply *)

MinSubtasks == 3
MaxSubtasks == 5
\* a line of the line heuristic must be longer than this
MinLineLen == 3

\* the reply without the markers of a fenced block at its ends
CleanedResponse(aiResponse) ==
    LET a == Trim(aiResponse)
        b == IF StartsWithCI(a, FenceJson) THEN TrimStart(Drop(a, Len(FenceJson)))
             ELSE a
        c == IF StartsWith(b, Fence) THEN TrimStart(Drop(b, Len(Fence))) ELSE b
        d == IF EndsWith(c, Fence) THEN TrimEnd(SubSeq(c, 1, Len(c) - Len(Fence)))
             ELSE c
    IN  Trim(d)

\* line.match(/^(```|步骤|Step|Task|JSON)/i); the texts of the model hold no
\* Chinese characters
HeaderLine(line) ==
    \/ StartsWith(line, Fence)
    \/ StartsWithCI(line, <<"s", "t", "e", "p">>)
    \/ StartsWithCI(line, <<"t", "a", "s", "k">>)
    \/ StartsWithCI(line, <<"j", "s", "o", "n">>)

\* the title the line heuristic makes of a line: the quotes and brackets at
\* its ends removed, then one leading digit or bullet and the white space
\* after it
LineTitle(line) ==
    LET a == StripQuotes(line)
        b == IF a # <<>> /\ (IsDigit(Head(a)) \/ Head(a) \in {"-", Bullet, "*", "."})
             THEN TrimStart(Tail(a)) ELSE a
    IN  Trim(b)

\* line.match(/^[\[\],]+$/)
OnlyBrackets(line) ==
    line # <<>> /\ \A i \in 1..Len(line) : line[i] \in {"[", "]", ","}

LineHeuristic(aiResponse) ==
    LET split == Split(aiResponse, <<>>)
        trimmed == [i \in 1..Len(split) |-> Trim(split[i])]
        lines == SelectSeq(trimmed, LAMBDA l : l # <<>> /\ ~HeaderLine(l))
        titles == [i \in 1..Len(lines) |-> Str(LineTitle(lines[i]))]
    IN  Slice(SelectSeq(titles,
                        LAMBDA v : Len(v.s) > MinLineLen /\ ~OnlyBrackets(v.s)),
              MaxSubtasks)

\* The value of `subtasks` after the nested try blocks, and the layer that
\* set it ("none": no layer did, subtasks is still []).  subtasks is what
\* JSON.parse returned: an array of any values.
Layer(layer, subtasks) == [layer |-> layer, subtasks |-> subtasks]

\* the inner catch: the line heuristic, when the extracted array failed to
\* parse
SecondCatch(aiResponse, second) ==
    IF second.ok THEN Layer("extracted", second.val.items)
    ELSE Layer("lines", LineHeuristic(aiResponse))

\* the outer catch: the first [...] of the raw reply, parsed; nothing when
\* the reply has none
FirstCatchMatch(aiResponse, arrayMatch) ==
    IF ~arrayMatch.found THEN Layer("none", <<>>)
    ELSE SecondCatch(aiResponse,
                     JsonParse(Trim(RemoveAll(RemoveAll(arrayMatch.text, FenceJson),
                                              Fence))))

FirstCatch(aiResponse) == FirstCatchMatch(aiResponse, ArrayMatch(aiResponse))

\* the try block, JSON.parse(cleanedResponse) being no array
NotArray(aiResponse, arrayMatch, inner) ==
    IF ~arrayMatch.found THEN Layer("none", <<>>)
    ELSE IF inner.ok THEN Layer("extracted", inner.val.items)
    ELSE FirstCatch(aiResponse)

NotArrayMatch(aiResponse, arrayMatch) ==
    NotArray(aiResponse, arrayMatch, JsonParse(arrayMatch.text))

\* the try block
TryParse(aiResponse, cleanedResponse, parsed) ==
    IF ~parsed.ok THEN FirstCatch(aiResponse)
    ELSE IF parsed.val.t = "array" THEN Layer("strict", parsed.val.items)
    ELSE NotArrayMatch(aiResponse, ArrayMatch(cleanedResponse))

TryCleaned(aiResponse, cleanedResponse) ==
    TryParse(aiResponse, cleanedResponse, JsonParse(cleanedResponse))

ParsedSubtasks(aiResponse) == TryCleaned(aiResponse, CleanedResponse(aiResponse))

\* one title cleaned: quotes, commas and brackets at its ends, \" sequences
CleanTitle(task) == Trim(Unescape(StripQuotes(task)))

\* subtasks.map(clean).filter(task => task.length > 0); the map throws a
\* TypeError at a value that is no string
CleanedSubtasks(subtasks) ==
    IF \E i \in 1..Len(subtasks) : ~IsStr(subtasks[i])
    THEN [threw |-> TRUE, subtasks |-> <<>>]
    ELSE [threw |-> FALSE,
          subtasks |->
            SelectSeq([i \in 1..Len(subtasks) |-> CleanTitle(subtasks[i].s)],
                      LAMBDA s : Len(s) > 0)]

\* A handler that inserts every subtask.
finalSubtasksAll(subtasks) == subtasks

\* subtasks.slice(0, 5)
finalSubtasks(subtasks) == Slice(subtasks, MaxSubtasks)

\* the description of a generated subtask; "<" and ">" stand for the text
\* of the template around the title
GeneratedDescription(finalTaskTitle) == Str(<<"<">> \o finalTaskTitle \o <<">">>)

\* A handler that leaves the subtasks without a parent.
taskDataListOrphans(subtasks, finalTaskId, title) ==
    [i \in 1..Len(subtasks) |->
        [title |-> Trim(subtasks[i]),
         description |-> GeneratedDescription(title),
         status |-> "pending",
         priority |-> "medium",
         parent_id |-> NULL]]

taskDataList(subtasks, finalTaskId, finalTaskTitle) ==
    [i \in 1..Len(subtasks) |->
        [title |-> Trim(subtasks[i]),
         description |-> GeneratedDescription(finalTaskTitle),
         status |-> "pending",
         priority |-> "medium",
         parent_id |-> finalTaskId]]

----------------------------------------------------------------------------
(* POST /api/tasks/breakdown: the handler.  A body is [taskId, taskTitle]; *)
(* the generator answers with an error or with a content (a text, empty    *)
(* when the reply has no content).                                         *)

GeneratorError == [kind |-> "error", content |-> <<>>]
GeneratorReply(text) == [kind |-> "reply", content |-> text]

\* A handler that takes the title of the body when the body has one.
finalTaskTitleOfBody(body, existingTask) ==
    IF Truthy(body.taskTitle) /\ IsStr(body.taskTitle)
    THEN Trim(body.taskTitle.s) ELSE existingTask.title

\* finalTaskTitle: the title of the fetched task when the body has a
\* taskId, else the taskTitle of the body
finalTaskTitle(body, existingTask) ==
    IF Truthy(body.taskId) THEN existingTask.title ELSE Trim(body.taskTitle.s)

\* the request arrives: the subject is resolved, by a fetch when the body
\* has a taskId, and the generator is called
BreakdownBegin(p, body, up) ==
    /\ Free(p)
    /\ LET route == "POST /api/tasks/breakdown"
           req == [body |-> body]
           numId == IF IsStr(body.taskId)
                    THEN LET n == ParseInt(body.taskId.s)
                         IN  IF n.nan THEN [t |-> "NaN"] ELSE Num(n.v)
                    ELSE body.taskId
           q == StoreSingle(tasks, numId.n, up /\ IsInteger(numId))
           title == finalTaskTitle(body, q.row)
       IN  IF Truthy(body.taskId) /\ (numId.t = "NaN" \/ numId.n <= 0)
           THEN Answer(p, route, req, errorResponse(<<"taskId_not_positive">>, 400))
           ELSE IF Truthy(body.taskId) /\ ~q.ok
           THEN Answer(p, route, req, errorResponse(<<"task_not_found">>, 404))
           ELSE IF ~Truthy(body.taskId) /\ ~Truthy(body.taskTitle)
           THEN Answer(p, route, req, errorResponse(<<"subject_required">>, 400))
           ELSE IF ~Truthy(body.taskId)
                   /\ (~IsStr(body.taskTitle) \/ Len(Trim(body.taskTitle.s)) = 0)
           THEN Answer(p, route, req, errorResponse(<<"taskTitle_empty">>, 400))
           ELSE IF ~apiKey
           THEN Answer(p, route, req, errorResponse(<<"api_key_missing">>, 500))
           ELSE Await(p, "generate", route, req,
                      [finalTaskId |-> IF Truthy(body.taskId) THEN numId.n ELSE NULL,
                       finalTaskTitle |-> title])

\* the cleaned subtasks are counted and sent to the store
CountSubtasks(p, route, req, cleaned) ==
    IF cleaned.threw
    THEN Answer(p, route, req, errorResponse(<<"TypeError">>, 500))
    ELSE IF Len(cleaned.subtasks) = 0
    THEN Answer(p, route, req, errorResponse(<<"no_valid_subtasks">>, 400))
    ELSE IF Len(cleaned.subtasks) < MinSubtasks
    THEN Answer(p, route, req, errorResponse(<<"too_few_subtasks">>, 400))
    ELSE Await(p, "bulk", route, req,
               [subtasks |-> cleaned.subtasks,
                taskDataList |->
                    taskDataList(finalSubtasks(cleaned.subtasks),
                                 h[p].loc.finalTaskId, h[p].loc.finalTaskTitle)])

\* the generator has answered: the reply is parsed, cleaned and counted,
\* and the subtasks are sent to the store
BreakdownGenerate(p, outcome) ==
    /\ h[p].pc = "generate"
    /\ IF outcome.kind = "error"
       THEN Answer(p, h[p].route, [body |-> h[p].req.body, generator |-> outcome],
                   errorResponse(<<"generator_failed">>, 500))
       ELSE IF outcome.content = <<>>
       THEN Answer(p, h[p].route, [body |-> h[p].req.body, generator |-> outcome],
                   errorResponse(<<"generator_no_content">>, 500))
       ELSE CountSubtasks(p, h[p].route,
                          [body |-> h[p].req.body, generator |-> outcome],
                          CleanedSubtasks(ParsedSubtasks(outcome.content).subtasks))

BrokenDownResponse(r) ==
    IF r.ok THEN successResponse(r.rows, 201)
    ELSE errorResponse(<<"insert_failed">>, 500)

\* the bulk insert and the response
BreakdownInsert(p, up) ==
    /\ h[p].pc = "bulk"
    /\ LET r == StoreInsert(tasks, nextId, h[p].loc.taskDataList, up)
       IN  InsertStep(p, h[p].route, h[p].req, h[p].loc.taskDataList, up,
                      r, BrokenDownResponse(r))

(***************************************************************************)
(* Requests and specifications.                                            *)
(***************************************************************************)
\* the text of a path id
IdText(i) == Str(<<Digits[i + 1]>>)

Body(title, description, status, priority, parent_id) ==
    [title |-> title, description |-> description, status |-> status,
     priority |-> priority, parent_id |-> parent_id]

\* a reply that is a JSON array of the one-letter titles of `letters`
RECURSIVE ArrayText(_)
ArrayText(letters) ==
    IF letters = <<>> THEN <<"]">>
    ELSE <<"\"", Head(letters), "\"">>
         \o (IF Len(letters) > 1 THEN <<",">> ELSE <<>>)
         \o ArrayText(Tail(letters))
ArrayReply(letters) == GeneratorReply(<<"[">> \o ArrayText(letters))

(***************************************************************************)
(* Spec: concurrent handlers.  The requests vary the hierarchy only: the   *)
(* store always answers, titles are fixed.  A request that creates rows is *)
(* taken only while the id sequence is at most MaxId.                      *)
(***************************************************************************)
Ids == 1..MaxId
PathIds == {IdText(i) : i \in Ids}
ParentValues == {Null} \cup {Num(i) : i \in Ids}
CreateBodies ==
    {Body(Str(<<"t">>), Undefined, Undefined, Undefined, pv) :
        pv \in {Undefined} \cup {Num(i) : i \in Ids}}
PatchBodies ==
    {Body(Undefined, Undefined, Undefined, Undefined, pv) : pv \in ParentValues}
BreakdownBodies == {[taskId |-> Num(i), taskTitle |-> Undefined] : i \in Ids}
Outcomes == {ArrayReply(<<"a", "b", "c">>), ArrayReply(<<"a", "b">>)}

Init ==
    /\ tasks = <<>>
    /\ nextId = 1
    /\ apiKey = TRUE
    /\ h = [p \in Handlers |-> Idle]

Next ==
    \E p \in Handlers :
        \/ nextId <= MaxId /\ \E body \in CreateBodies : CreateBegin(p, body, TRUE)
        \/ CreateInsert(p, TRUE)
        \/ \E id \in PathIds, body \in PatchBodies : PatchBegin(p, id, body, TRUE)
        \/ PatchUpdate(p, TRUE)
        \/ \E id \in PathIds : DeleteBegin(p, id, TRUE)
        \/ DeleteExec(p, TRUE)
        \/ nextId <= MaxId
           /\ \E body \in BreakdownBodies : BreakdownBegin(p, body, TRUE)
        \/ \E outcome \in Outcomes : BreakdownGenerate(p, outcome)
        \/ BreakdownInsert(p, TRUE)

Spec == Init /\ [][Next]_vars

(***************************************************************************)
(* SpecSeq: the requests are served one at a time, by one handler.  The    *)
(* store and the generator may fail, and the replies of the generator      *)
(* take every path of the parser.                                          *)
(***************************************************************************)
SeqMaxId == 3

SeqIds == 1..SeqMaxId
SeqPathIds == {IdText(i) : i \in SeqIds}
SeqCreateBodies ==
    {Body(Str(<<"t">>), Undefined, Undefined, Undefined, pv) :
        pv \in {Undefined} \cup {Num(i) : i \in SeqIds}}
SeqPatchBodies ==
    {Body(Undefined, Undefined, Undefined, Undefined, pv) :
        pv \in {Null} \cup {Num(i) : i \in SeqIds}}
SeqBreakdownBodies ==
    {[taskId |-> Num(i), taskTitle |-> Undefined] : i \in SeqIds}
    \cup {[taskId |-> Undefined, taskTitle |-> Str(<<"t">>)],
          [taskId |-> Undefined, taskTitle |-> Undefined],
          [taskId |-> Num(1), taskTitle |-> Str(<<"x">>)]}

\* "1. Do X\n2. Do Y\n3. Do Z"
NumberedLines ==
    <<"1", ".", " ", "D", "o", " ", "X", "\n",
      "2", ".", " ", "D", "o", " ", "Y", "\n",
      "3", ".", " ", "D", "o", " ", "Z">>
\* ```json\n["a","b","c","d"]\n```
FencedReply ==
    FenceJson \o <<"\n">> \o <<"[">> \o ArrayText(<<"a", "b", "c", "d">>)
    \o <<"\n">> \o Fence
\* ok ["a","b","c"]
PrefixedReply == <<"o", "k", " ", "[">> \o ArrayText(<<"a", "b", "c">>)
\* [1,2,3]
NumbersReply == <<"[", "1", ",", "2", ",", "3", "]">>
\* an array that JSON.parse refuses (a trailing comma), one title a line:
\* [\n"Plan it",\n"Make it",\n"Ship it",\n]
BrokenArrayReply ==
    <<"[", "\n",
      "\"", "P", "l", "a", "n", " ", "i", "t", "\"", ",", "\n",
      "\"", "M", "a", "k", "e", " ", "i", "t", "\"", ",", "\n",
      "\"", "S", "h", "i", "p", " ", "i", "t", "\"", ",", "\n",
      "]">>
SeqOutcomes ==
    {GeneratorError, GeneratorReply(<<>>),
     ArrayReply(<<"a", "b">>),
     ArrayReply(<<"a", "b", "c">>),
     ArrayReply(<<"a", "b", "c", "d", "e", "f">>),
     GeneratorReply(NumberedLines),
     GeneratorReply(FencedReply),
     GeneratorReply(PrefixedReply),
     GeneratorReply(NumbersReply),
     GeneratorReply(BrokenArrayReply)}

InitSeq ==
    /\ tasks = <<>>
    /\ nextId = 1
    /\ apiKey \in BOOLEAN
    /\ h = [p \in Handlers |-> Idle]

NextSeq ==
    \E up \in BOOLEAN :
        \/ nextId <= SeqMaxId
           /\ \E body \in SeqCreateBodies : CreateBegin("h1", body, up)
        \/ CreateInsert("h1", up)
        \/ \E id \in SeqPathIds, body \in SeqPatchBodies : PatchBegin("h1", id, body, up)
        \/ PatchUpdate("h1", up)
        \/ \E id \in SeqPathIds : DeleteBegin("h1", id, up)
        \/ DeleteExec("h1", up)
        \/ nextId <= SeqMaxId
           /\ \E body \in SeqBreakdownBodies : BreakdownBegin("h1", body, up)
        \/ \E outcome \in SeqOutcomes : BreakdownGenerate("h1", outcome)
        \/ BreakdownInsert("h1", up)

SpecSeq == InitSeq /\ [][NextSeq]_vars

(***************************************************************************)
(* SpecFields: the requests are served one at a time; the bodies of PATCH  *)
(* vary every field, with values the validation accepts and values it      *)
(* refuses, and the path ids are texts that parseInt reads.                *)
(***************************************************************************)
FieldPathIds == PathIds \cup {Str(<<"1", "a">>)}
FieldCreateBodies ==
    {Body(Str(<<"t">>), Undefined, Undefined, Undefined, pv) : pv \in {Undefined, Num(1)}}
FieldPatchBodies ==
    {Body(title, Undefined, status, Undefined, pv) :
        title \in {Undefined, Str(<<"u">>), Num(7)},
        status \in {Undefined, Tok("bogus")},
        pv \in {Undefined, Null} \cup {Num(i) : i \in Ids}}
InitFields ==
    /\ tasks = <<>>
    /\ nextId = 1
    /\ apiKey = TRUE
    /\ h = [p \in Handlers |-> Idle]

NextFields ==
    \E up \in BOOLEAN :
        \/ nextId <= MaxId
           /\ \E body \in FieldCreateBodies : CreateBegin("h1", body, up)
        \/ CreateInsert("h1", up)
        \/ \E id \in FieldPathIds, body \in FieldPatchBodies :
                PatchBegin("h1", id, body, up)
        \/ PatchUpdate("h1", up)

SpecFields == InitFields /\ [][NextFields]_vars

(***************************************************************************)
(* SpecPayload: one handler, the store always answers, and the payloads of *)
(* POST /api/tasks and PATCH /api/tasks/[id] vary in every field: valid    *)
(* and invalid values, one or several invalid fields in one payload.       *)
(***************************************************************************)
PayloadCreateBodies ==
    \* valid payloads: status and priority supplied or omitted; a parent
    \* that is omitted, null, a number or a text
    {Body(Str(<<"t">>), Undefined, Undefined, Undefined, Undefined),
     Body(Str(<<"t">>), Undefined, Tok("completed"), Undefined, Undefined),
     Body(Str(<<"t">>), Undefined, Tok("completed"), Tok("high"), Num(1))}
    \cup {Body(Str(<<"t">>), Undefined, Undefined, Undefined, pv) :
            pv \in {Null, Num(0), Num(1), Num(-1), NonInt(1), Str(<<"1">>)}}
    \* payloads with one, two, three and five invalid fields
    \cup {Body(Str(<<"t">>), Undefined, Tok("bogus"), Undefined, Undefined),
          Body(Str(<<" ">>), Undefined, Tok("bogus"), Undefined, Undefined),
          Body(Undefined, Undefined, Undefined, Tok("bogus"), NonInt(1)),
          Body(Str(<<"t">>), Num(7), Tok("bogus"), Tok("bogus"), Num(1)),
          Body(Num(7), Num(7), Tok("bogus"), Tok("bogus"), NonInt(1))}
PayloadPatchBodies ==
    {Body(Undefined, Undefined, Undefined, Undefined, pv) :
        pv \in {Undefined, Null, Num(0), Num(1), Num(2), Num(-1), NonInt(1)}}
    \cup {Body(Str(<<"u">>), Undefined, Undefined, Undefined, Undefined),
          Body(Undefined, Undefined, Tok("completed"), Undefined, Undefined),
          Body(Undefined, Str(<<"d">>), Undefined, Tok("high"), Undefined),
          Body(Str(<<"u">>), Undefined, Tok("completed"), Undefined, Num(1))}
    \cup {Body(Num(7), Undefined, Undefined, Undefined, Undefined),
          Body(Str(<<" ">>), Undefined, Tok("bogus"), Undefined, Undefined),
          Body(Str(<<"u">>), Num(7), Undefined, Tok("bogus"), NonInt(1)),
          Body(Str(<<" ">>), Num(7), Tok("bogus"), Tok("bogus"), NonInt(1))}

\* the query string of GET /api/tasks
Query(status, priority, parent_id) ==
    [status |-> status, priority |-> priority, parent_id |-> parent_id]
PayloadQueries ==
    {Query(Undefined, Undefined, pv) :
        pv \in {Undefined, Str(NullText), Str(<<"1">>), Str(<<"a">>)}}
    \cup {Query(Tok("completed"), Undefined, Undefined),
          Query(Tok("bogus"), Undefined, Undefined),
          Query(Undefined, Tok("high"), Undefined),
          Query(Tok("pending"), Undefined, Str(NullText)),
          Query(Tok("completed"), Tok("high"), Str(<<"1">>))}

NextPayload ==
    \/ nextId <= MaxId /\ \E body \in PayloadCreateBodies : CreateBegin("h1", body, TRUE)
    \/ CreateInsert("h1", TRUE)
    \/ \E id \in PathIds, body \in PayloadPatchBodies : PatchBegin("h1", id, body, TRUE)
    \/ PatchUpdate("h1", TRUE)
    \/ \E query \in PayloadQueries : ListTasks("h1", query, TRUE)

SpecPayload == InitFields /\ [][NextPayload]_vars

(***************************************************************************)
(* SpecRead: one handler reads and deletes tasks of a hierarchy that       *)
(* creates and breakdowns build; the store may fail at any call.  The path *)
(* ids are numbers, a number followed by a letter, a letter and zero.      *)
(***************************************************************************)
ReadPathIds ==
    {IdText(i) : i \in 0..(SeqMaxId + 1)} \cup {Str(<<"1", "a">>), Str(<<"a">>)}
ReadCreateBodies ==
    {Body(Str(<<"t">>), Undefined, Undefined, Undefined, pv) :
        pv \in {Undefined} \cup {Num(i) : i \in SeqIds}}
ReadBreakdownBodies == {[taskId |-> Num(i), taskTitle |-> Undefined] : i \in SeqIds}

ReadPatchBodies ==
    {Body(Undefined, Undefined, Undefined, Undefined, pv) : pv \in {Undefined, Num(1)}}
ReadQueries ==
    {Query(Undefined, Undefined, pv) : pv \in {Undefined, Str(NullText), Str(<<"a">>)}}

\* the reply of the generator when it answers
ReadReply == ArrayReply(<<"a", "b", "c">>)

NextRead ==
    \E up \in BOOLEAN :
        \/ nextId <= SeqMaxId
           /\ \E body \in ReadCreateBodies : CreateBegin("h1", body, up)
        \/ CreateInsert("h1", up)
        \/ nextId <= SeqMaxId
           /\ \E body \in ReadBreakdownBodies : BreakdownBegin("h1", body, up)
        \/ BreakdownGenerate("h1", GeneratorError)
        \/ BreakdownGenerate("h1", ReadReply)
        \/ BreakdownInsert("h1", up)
        \/ \E id \in ReadPathIds : GetBegin("h1", id, up)
        \/ GetSubtasks("h1", up)
        \/ \E id \in ReadPathIds : DeleteBegin("h1", id, up)
        \/ DeleteExec("h1", up)
        \/ \E id \in {IdText(1), IdText(2)}, body \in ReadPatchBodies :
                PatchBegin("h1", id, body, up)
        \/ PatchUpdate("h1", up)
        \/ \E query \in ReadQueries : ListTasks("h1", query, up)
        \/ \E method \in Methods : TasksOtherMethod("h1", method)
        \/ \E id \in ReadPathIds, method \in Methods : TaskOtherMethod("h1", id, method)
        \/ \E method \in Methods : BreakdownOtherMethod("h1", method)

SpecRead == InitFields /\ [][NextRead]_vars

\* the calls a handler awaits return: its next step is taken
Returns(p) ==
    \E up \in BOOLEAN :
        \/ CreateInsert(p, up)
        \/ PatchUpdate(p, up)
        \/ GetSubtasks(p, up)
        \/ DeleteExec(p, up)
        \/ BreakdownGenerate(p, GeneratorError)
        \/ BreakdownGenerate(p, ReadReply)
        \/ BreakdownInsert(p, up)

\* SpecRead with every awaited call returning
SpecReadLive == SpecRead /\ WF_vars(Returns("h1"))

(***************************************************************************)
(* Properties of the hierarchy.                                            *)
(***************************************************************************)
PatchRoute == "PATCH /api/tasks/[id]"
CreateRoute == "POST /api/tasks"
BreakdownRoute == "POST /api/tasks/breakdown"

\* handler p has answered a request of `route` with the error `msg`
Refused(p, route, msg) ==
    /\ h[p].pc = "done"
    /\ h[p].route = route
    /\ ~h[p].resp.success
    /\ h[p].resp.error.msgs = <<msg>>

\* C3: in every reachable state, whatever the interleaving of the create,
\* update, delete and breakdown requests, no task has its own id as
\* parent_id.
C3_NoSelfParent == \A i \in DOMAIN tasks : tasks[i].parent_id # i

\* A PATCH of an existing task with its own id as parent_id has been refused.
C3_Witness ==
    \E p \in Handlers :
        /\ Refused(p, PatchRoute, "self_parent")
        /\ validateId(h[p].req.id) \in DOMAIN tasks
        /\ h[p].req.body.parent_id = Num(validateId(h[p].req.id))

\* C4: in every reachable state, whatever the interleaving of the requests
\* (a parent may be deleted between the parent lookup of a handler and its
\* write), the parent_id of every task is null or the id of a task of the
\* table.
C4_ParentExists ==
    \A i \in DOMAIN tasks :
        tasks[i].parent_id # NULL => tasks[i].parent_id \in DOMAIN tasks

\* A create or an update whose parent lookup had found the parent has been
\* refused by the store, the parent being gone at the write.
C4_Witness ==
    \E p \in Handlers :
        /\ h[p].pc = "done"
        /\ h[p].route \in {PatchRoute, CreateRoute}
        /\ h[p].resp.status = 500
        /\ LET body == IF h[p].route = PatchRoute THEN h[p].req.body ELSE h[p].req
           IN  /\ body.parent_id.t = "number"
               /\ body.parent_id.n \notin DOMAIN tasks

\* C7: in every reachable state, also those reached by concurrent PATCH
\* requests whose parent lookup and update interleave, no two tasks are
\* the parent of each other.
C7_NoTwoCycle ==
    \A a, b \in DOMAIN tasks :
        a # b => ~(tasks[a].parent_id = b /\ tasks[b].parent_id = a)

\* the step is the arrival of a request of `route` at handler p
Arrives(p, route) ==
    /\ Free(p)
    /\ h'[p] # h[p]
    /\ h'[p].pc # "idle"
    /\ h'[p].route = route

\* C2: when task B has parent_id = A, a PATCH of A with parent_id = B is
\* answered 400 and changes no row (the parent_id of A stays as it was).
C2_CircularRefused ==
    [][\A p \in Handlers : \A a, b \in DOMAIN tasks :
          (/\ Arrives(p, PatchRoute)
           /\ validateId(h'[p].req.id) = a
           /\ h'[p].req.body.parent_id = Num(b)
           /\ tasks[b].parent_id = a)
          => (/\ h'[p].pc = "done"
              /\ h'[p].resp.status = 400
              /\ ~h'[p].resp.success
              /\ tasks' = tasks)]_vars

\* A PATCH of A with parent_id = B has been refused as circular while B has
\* parent_id = A.
C2_Witness ==
    \E p \in Handlers : \E a, b \in DOMAIN tasks :
        /\ Refused(p, PatchRoute, "circular_parent")
        /\ validateId(h[p].req.id) = a
        /\ h[p].req.body.parent_id = Num(b)
        /\ tasks[b].parent_id = a

DeleteRoute == "DELETE /api/tasks/[id]"

\* C5: a successful DELETE of task T removes T and every task that has T
\* as an ancestor through parent_id, and no other row; the rows that stay
\* are unchanged, and a task without children is the one row removed.
C5_DeleteCascades ==
    [][\A p \in Handlers :
          (h[p].pc = "delete" /\ h'[p].pc = "done" /\ h'[p].resp.success)
          => LET T == h[p].loc.taskId
                 below == Descendants(tasks, T)
             IN  /\ DOMAIN tasks' = DOMAIN tasks \ ({T} \cup below)
                 /\ \A i \in DOMAIN tasks' : tasks'[i] = tasks[i]
                 /\ (T \in DOMAIN tasks /\ below = {}
                        => Cardinality(DOMAIN tasks')
                            = Cardinality(DOMAIN tasks) - 1)]_vars

\* The existence check of a DELETE has found T, which has a child and a
\* grandchild, next to a row that is no descendant of T: the delete is
\* the step that follows.
C5_Witness ==
    \E p \in Handlers :
        /\ h[p].pc = "delete"
        /\ LET T == h[p].loc.taskId
           IN  /\ T \in DOMAIN tasks
               /\ \E c, g, o \in DOMAIN tasks :
                    /\ tasks[c].parent_id = T
                    /\ tasks[g].parent_id = c
                    /\ g # T
                    /\ o \notin {T} \cup Descendants(tasks, T)

\* C6: the hierarchy guard is shallow.  It refuses a PATCH of T with the
\* existing candidate parent P only when P is T or the parent_id of P is
\* T, so that PATCH requests accepted one after the other reach a cycle
\* of three tasks.
C6_ShallowGuard ==
    [][\A p \in Handlers : \A P \in DOMAIN tasks :
          (/\ Arrives(p, PatchRoute)
           /\ h'[p].req.body.parent_id = Num(P)
           /\ validateId(h'[p].req.id) # P
           /\ tasks[P].parent_id # validateId(h'[p].req.id))
          => ~(/\ h'[p].pc = "done"
               /\ h'[p].resp.error.msgs
                    \in {<<"self_parent">>, <<"circular_parent">>})]_vars

\* A PATCH has been accepted and the table holds a cycle of three tasks.
C6_Witness ==
    /\ h["h1"].pc = "done"
    /\ h["h1"].route = PatchRoute
    /\ h["h1"].resp.status = 200
    /\ \E a, b, c \in DOMAIN tasks :
        /\ a # b /\ b # c /\ a # c
        /\ tasks[a].parent_id = b
        /\ tasks[b].parent_id = c
        /\ tasks[c].parent_id = a
        /\ validateId(h["h1"].req.id) \in {a, b, c}

(***************************************************************************)
(* Properties of the breakdown.                                            *)
(***************************************************************************)
\* handler p has the reply of the generator (it waits for the bulk insert
\* or has answered after the generator's reply)
HasReply(p) ==
    /\ h[p].pc \in {"bulk", "done"}
    /\ h[p].route = BreakdownRoute
    /\ "generator" \in DOMAIN h[p].req
    /\ h[p].req.generator.kind = "reply"
    /\ h[p].req.generator.content # <<>>

\* the titles parsed and cleaned from the reply handler p has
CleanedOf(p) ==
    CleanedSubtasks(ParsedSubtasks(h[p].req.generator.content).subtasks).subtasks

\* C8: a breakdown answered 201 has inserted, and returns, between 3 and 5
\* rows: the n >= 3 titles parsed and cleaned from the reply give
\* min(n, 5) rows, which carry the first titles in their order.
C8_BreakdownSize ==
    \A p \in Handlers :
        (HasReply(p) /\ h[p].pc = "done" /\ h[p].resp.status = 201)
        => LET rows == h[p].resp.data
               n == Len(CleanedOf(p))
           IN  /\ Len(rows) >= MinSubtasks
               /\ Len(rows) <= MaxSubtasks
               /\ n >= MinSubtasks
               /\ Len(rows) = (IF n < MaxSubtasks THEN n ELSE MaxSubtasks)
               /\ \A k \in 1..Len(rows) :
                    /\ rows[k].title = CleanedOf(p)[k]
                    /\ rows[k].id \in DOMAIN tasks
                    /\ tasks[rows[k].id] = rows[k]
               /\ \A j, k \in 1..Len(rows) : j < k => rows[j].id < rows[k].id

\* A breakdown whose reply holds six titles has been answered 201 with
\* five rows.
C8_Witness ==
    \E p \in Handlers :
        /\ HasReply(p)
        /\ h[p].pc = "done"
        /\ h[p].resp.status = 201
        /\ Len(CleanedOf(p)) = 6
        /\ Len(h[p].resp.data) = 5

\* the reply handler p has is no JSON and holds no [...]
ReplyWithoutArray(p) ==
    /\ HasReply(p)
    /\ ~JsonParse(CleanedResponse(h[p].req.generator.content)).ok
    /\ ~ArrayMatch(h[p].req.generator.content).found

\* C9: a reply that is no JSON and holds no [...] is read by the line
\* heuristic, which yields a subtask a line, without its leading number or
\* bullet: the breakdown is not refused for want of subtasks and, for the
\* reply "1. Do X\n2. Do Y\n3. Do Z", passes the count check with the
\* titles "Do X", "Do Y", "Do Z".
C9_LineHeuristic ==
    \A p \in Handlers :
        ReplyWithoutArray(p)
        => /\ ~Refused(p, BreakdownRoute, "no_valid_subtasks")
           /\ h[p].req.generator.content = NumberedLines
                => IF h[p].pc = "bulk"
                   THEN h[p].loc.subtasks
                            = <<<<"D", "o", " ", "X">>, <<"D", "o", " ", "Y">>,
                                <<"D", "o", " ", "Z">>>>
                   ELSE h[p].resp.status \in {201, 500}

\* C10: a breakdown that ends in a failure response leaves the table as it
\* was: no step of the request changes a row unless it is the step that
\* answers 201, and that step adds the rows it returns, all of them, to
\* the table as it was.
C10_AllOrNothing ==
    [][\A p \in Handlers :
          (/\ h'[p] # h[p]
           /\ h'[p].pc # "idle"
           /\ h'[p].route = BreakdownRoute)
          => IF h'[p].pc = "done" /\ h'[p].resp.success
             THEN LET rows == h'[p].resp.data
                      ids == {rows[k].id : k \in 1..Len(rows)}
                  IN  /\ ids \cap DOMAIN tasks = {}
                      /\ DOMAIN tasks' = DOMAIN tasks \cup ids
                      /\ \A i \in DOMAIN tasks : tasks'[i] = tasks[i]
                      /\ \A k \in 1..Len(rows) : tasks'[rows[k].id] = rows[k]
             ELSE tasks' = tasks]_vars

\* A breakdown has been answered 500 for its bulk insert; the table holds
\* the rows it held before.
C10_Witness ==
    \E p \in Handlers :
        /\ Refused(p, BreakdownRoute, "insert_failed")
        /\ DOMAIN tasks # {}

(***************************************************************************)
(* Properties of the requests.                                             *)
(***************************************************************************)
\* C1: a PATCH of task T whose body has parent_id = T is answered 400,
\* whatever the other fields of the body, and changes no row.
C1_SelfParentRefused ==
    [][\A p \in Handlers :
          (/\ Arrives(p, PatchRoute)
           /\ validateId(h'[p].req.id) # 0
           /\ h'[p].req.body.parent_id = Num(validateId(h'[p].req.id)))
          => (/\ h'[p].pc = "done"
              /\ h'[p].resp.status = 400
              /\ ~h'[p].resp.success
              /\ tasks' = tasks)]_vars

\* A PATCH of an existing task with its own id as parent_id and a valid
\* new title has been answered 400; the row has the title it was created
\* with.
C1_Witness ==
    \E p \in Handlers :
        /\ h[p].pc = "done"
        /\ h[p].route = PatchRoute
        /\ h[p].resp.status = 400
        /\ LET T == validateId(h[p].req.id)
           IN  /\ T \in DOMAIN tasks
               /\ h[p].req.body.parent_id = Num(T)
               /\ h[p].req.body.title = Str(<<"u">>)
               /\ h[p].req.body.status = Undefined
               /\ tasks[T].title = <<"t">>

\* the step is the one in which handler p answers a breakdown with 201
BreakdownSucceeds(p) ==
    /\ h[p].pc = "bulk"
    /\ h'[p].pc = "done"
    /\ h'[p].resp.success

\* C11: every row a successful breakdown creates has status pending,
\* priority medium, and as parent_id the id of the subject task when the
\* body has a taskId, null when it has a taskTitle only; the rows that
\* were there, the subject task among them, are unchanged.
C11_BreakdownRows ==
    [][\A p \in Handlers :
          BreakdownSucceeds(p)
          => LET rows == h'[p].resp.data
                 body == h'[p].req.body
             IN  /\ \A k \in 1..Len(rows) :
                      /\ rows[k].status = "pending"
                      /\ rows[k].priority = "medium"
                      /\ rows[k].parent_id
                            = (IF body.taskId = Undefined THEN NULL
                               ELSE body.taskId.n)
                      /\ rows[k].id \notin DOMAIN tasks
                      /\ tasks'[rows[k].id] = rows[k]
                 /\ \A i \in DOMAIN tasks : tasks'[i] = tasks[i]
                 /\ body.taskId # Undefined => body.taskId.n \in DOMAIN tasks']_vars

\* A breakdown of a stored task has been answered 201: the subject is in
\* the table, and so are its new subtasks.
C11_Witness ==
    \E p \in Handlers :
        /\ HasReply(p)
        /\ h[p].pc = "done"
        /\ h[p].resp.status = 201
        /\ h[p].req.body.taskId # Undefined
        /\ h[p].req.body.taskId.n \in DOMAIN tasks
        /\ \E i \in DOMAIN tasks : tasks[i].parent_id = h[p].req.body.taskId.n

\* handler p has resolved the subject of a breakdown: it waits for the
\* generator or the store, or has answered after the generator
SubjectAccepted(p) ==
    /\ h[p].pc \in {"generate", "bulk", "done"}
    /\ h[p].route = BreakdownRoute
    /\ h[p].pc = "done" => "generator" \in DOMAIN h[p].req

\* C12 (as stated): a breakdown request supplies exactly one of taskId and
\* taskTitle; no request with both, and none with neither, is accepted.
C12_ExactlyOne ==
    \A p \in Handlers :
        SubjectAccepted(p)
        => (Truthy(h[p].req.body.taskId) /\ ~Truthy(h[p].req.body.taskTitle))
           \/ (~Truthy(h[p].req.body.taskId) /\ Truthy(h[p].req.body.taskTitle))

\* C12 (amended): a breakdown request supplies at least one of taskId and
\* taskTitle.  A request with neither is answered 400 before the generator
\* is called and changes no row; a request with both is resolved by its
\* taskId alone: the subject is the stored task, with its stored title,
\* and the taskTitle of the body is not used.
C12_AtLeastOne ==
    [][\A p \in Handlers :
          Arrives(p, BreakdownRoute)
          => LET body == h'[p].req.body
             IN  /\ (~Truthy(body.taskId) /\ ~Truthy(body.taskTitle))
                    => (/\ h'[p].pc = "done"
                        /\ h'[p].resp.status = 400
                        /\ tasks' = tasks
                        /\ nextId' = nextId)
                 /\ (Truthy(body.taskId) /\ h'[p].pc = "generate")
                    => (/\ body.taskId.n \in DOMAIN tasks
                        /\ h'[p].loc.finalTaskId = body.taskId.n
                        /\ h'[p].loc.finalTaskTitle
                            = tasks[body.taskId.n].title)]_vars

\* A request with a taskId and a taskTitle that is not the stored title
\* waits for the generator.
C12_Witness ==
    \E p \in Handlers :
        /\ h[p].pc = "generate"
        /\ Truthy(h[p].req.body.taskId)
        /\ Truthy(h[p].req.body.taskTitle)
        /\ h[p].req.body.taskTitle.s # tasks[h[p].req.body.taskId.n].title

\* handler p ends POST /api/tasks with 201 in this step
CreateSucceeds(p) ==
    /\ h'[p] # h[p]
    /\ h'[p].pc = "done"
    /\ h'[p].route = CreateRoute
    /\ h'[p].resp.status = 201

\* C13: the task that a successful POST /api/tasks inserts and returns has
\* the status and the priority of the payload, or pending and medium where
\* the payload omits them; its parent_id is the id of the parent the payload
\* names, a task that exists, or it is null when the payload names none.
C13_CreatedFields ==
    [][\A p \in Handlers :
        CreateSucceeds(p) =>
            LET body == h'[p].req
                task == h'[p].resp.data
            IN  /\ task.id \notin DOMAIN tasks
                /\ task.id \in DOMAIN tasks'
                /\ tasks'[task.id] = task
                /\ task.status = (IF body.status = Undefined THEN "pending"
                                  ELSE body.status.tok)
                /\ task.priority = (IF body.priority = Undefined THEN "medium"
                                    ELSE body.priority.tok)
                /\ body.parent_id = Undefined => task.parent_id = NULL
                /\ (IsInteger(body.parent_id) /\ body.parent_id.n > 0) =>
                        /\ task.parent_id = body.parent_id.n
                        /\ body.parent_id.n \in DOMAIN tasks]_vars

\* a created task with a supplied status, a supplied priority and a parent
C13_Witness ==
    \E p \in Handlers :
        /\ h[p].pc = "done"
        /\ h[p].route = CreateRoute
        /\ h[p].resp.status = 201
        /\ h[p].req.status = Tok("completed")
        /\ h[p].req.priority = Tok("high")
        /\ h[p].resp.data.status = "completed"
        /\ h[p].resp.data.priority = "high"
        /\ h[p].resp.data.parent_id = 1

\* the messages of each field of a payload
FieldMessages ==
    [title |-> {"title_required", "title_not_string", "title_empty", "title_too_long"},
     description |-> {"description_not_string", "description_not_string_or_null",
                      "description_too_long"},
     status |-> {"status_invalid"},
     priority |-> {"priority_invalid"},
     parent_id |-> {"parent_id_not_integer", "parent_id_not_integer_or_null"}]

\* the fields of a payload that break their rule; the title is required on
\* create (required = TRUE) and optional on update
Violations(body, required) ==
    {f \in {"title"} :
        /\ required \/ body.title # Undefined
        /\ ~(/\ IsStr(body.title)
             /\ Trim(body.title.s) # <<>>
             /\ Len(body.title.s) <= MaxTitleLen)}
    \cup {f \in {"description"} :
            /\ body.description.t \notin {"undefined", "null"}
            /\ ~(IsStr(body.description)
                 /\ Len(body.description.s) <= MaxDescriptionLen)}
    \cup {f \in {"status"} :
            body.status # Undefined /\ ~Includes(TaskStatuses, body.status)}
    \cup {f \in {"priority"} :
            body.priority # Undefined /\ ~Includes(TaskPriorities, body.priority)}
    \cup {f \in {"parent_id"} :
            body.parent_id.t \notin {"undefined", "null"}
                /\ ~IsInteger(body.parent_id)}

\* the response lists one message for each field of `fields` and no other
ListsAll(resp, fields) ==
    /\ resp.status = 400
    /\ ~resp.success
    /\ Len(resp.error.msgs) = Cardinality(fields)
    /\ \A f \in DOMAIN FieldMessages :
        f \in fields <=>
            \E k \in 1..Len(resp.error.msgs) : resp.error.msgs[k] \in FieldMessages[f]

\* C14: validation does not stop at the first error.  A create or update
\* payload in which k fields break their rule (k >= 1) is answered 400 with
\* one message for each of the k fields, and nothing is written.  (A payload
\* is a record: its fields have no order that the answer could depend on.)
C14_AllErrorsListed ==
    [][\A p \in Handlers :
        /\ Arrives(p, CreateRoute) =>
            LET fields == Violations(h'[p].req, TRUE)
            IN  fields # {} =>
                    /\ h'[p].pc = "done"
                    /\ ListsAll(h'[p].resp, fields)
                    /\ tasks' = tasks
                    /\ nextId' = nextId
        /\ (Arrives(p, PatchRoute) /\ validateId(h'[p].req.id) # 0) =>
            LET fields == Violations(h'[p].req.body, FALSE)
            IN  fields # {} =>
                    /\ h'[p].pc = "done"
                    /\ ListsAll(h'[p].resp, fields)
                    /\ tasks' = tasks
                    /\ nextId' = nextId]_vars

\* an update with five invalid fields is answered with five messages while
\* the table holds a task
C14_Witness ==
    \E p \in Handlers :
        /\ h[p].pc = "done"
        /\ h[p].route = PatchRoute
        /\ Cardinality(Violations(h[p].req.body, FALSE)) = 5
        /\ Len(h[p].resp.error.msgs) = 5
        /\ 1 \in DOMAIN tasks

\* a parent_id that is present, not null and not a positive integer
NotPositiveInteger(v) ==
    v.t \notin {"undefined", "null"} /\ ~(IsInteger(v) /\ v.n > 0)

\* C15: a create or an update whose parent_id is present, not null and not a
\* positive integer (zero, negative, not an integer) is answered 400 and
\* the table is as it was.
C15_ParentPositive ==
    [][\A p \in Handlers :
        /\ (Arrives(p, CreateRoute) /\ NotPositiveInteger(h'[p].req.parent_id)) =>
                /\ h'[p].pc = "done"
                /\ h'[p].resp.status = 400
                /\ tasks' = tasks
        /\ (/\ Arrives(p, PatchRoute)
            /\ validateId(h'[p].req.id) # 0
            /\ NotPositiveInteger(h'[p].req.body.parent_id)) =>
                /\ h'[p].pc = "done"
                /\ h'[p].resp.status = 400
                /\ tasks' = tasks]_vars

\* the payload has none of the fields that an update recognises
NoRecognisedField(body) ==
    \A f \in {"title", "description", "status", "priority", "parent_id"} :
        body[f] = Undefined

\* C16: a PATCH whose payload has none of the recognised fields is answered
\* 400 with the message of an empty update, and no row is changed.
C16_EmptyUpdateRefused ==
    [][\A p \in Handlers :
        (/\ Arrives(p, PatchRoute)
         /\ validateId(h'[p].req.id) # 0
         /\ NoRecognisedField(h'[p].req.body)) =>
            /\ h'[p].pc = "done"
            /\ h'[p].resp.status = 400
            /\ ~h'[p].resp.success
            /\ h'[p].resp.error.msgs = <<"no_fields">>
            /\ tasks' = tasks]_vars

\* an empty update of a stored task has been refused
C16_Witness ==
    \E p \in Handlers :
        /\ Refused(p, PatchRoute, "no_fields")
        /\ NoRecognisedField(h[p].req.body)
        /\ validateId(h[p].req.id) \in DOMAIN tasks

\* handler p ends PATCH /api/tasks/[id] with 200 in this step
PatchSucceeds(p) ==
    /\ h'[p] # h[p]
    /\ h'[p].pc = "done"
    /\ h'[p].route = PatchRoute
    /\ h'[p].resp.status = 200

\* C17: a successful PATCH gives the supplied fields of the addressed task
\* the values of the payload (the title trimmed) and leaves its other
\* fields, its id and its created_at as they were; every other task is as
\* it was, and the response is the task as stored.
C17_OnlySuppliedFields ==
    [][\A p \in Handlers :
        PatchSucceeds(p) =>
            LET body == h'[p].req.body
                id == validateId(h'[p].req.id)
                old == tasks[id]
                new == tasks'[id]
            IN  /\ id \in DOMAIN tasks
                /\ DOMAIN tasks' = DOMAIN tasks
                /\ \A i \in DOMAIN tasks \ {id} : tasks'[i] = tasks[i]
                /\ h'[p].resp.data = new
                /\ new.id = old.id
                /\ new.created_at = old.created_at
                /\ new.title = (IF body.title = Undefined THEN old.title
                                ELSE Trim(body.title.s))
                /\ new.description = (IF body.description = Undefined
                                      THEN old.description
                                      ELSE DescriptionColumn(body.description))
                /\ new.status = (IF body.status = Undefined THEN old.status
                                 ELSE body.status.tok)
                /\ new.priority = (IF body.priority = Undefined THEN old.priority
                                   ELSE body.priority.tok)
                /\ new.parent_id = (IF body.parent_id = Undefined THEN old.parent_id
                                    ELSE IF body.parent_id = Null THEN NULL
                                    ELSE body.parent_id.n)]_vars

\* an update of the title alone has left a status, a priority and a parent
\* that are not the defaults, and another task, as they were
C17_Witness ==
    \E p \in Handlers :
        /\ h[p].pc = "done"
        /\ h[p].route = PatchRoute
        /\ h[p].resp.status = 200
        /\ h[p].req.body.title = Str(<<"u">>)
        /\ h[p].req.body.status = Undefined
        /\ h[p].req.body.parent_id = Undefined
        /\ h[p].resp.data.title = <<"u">>
        /\ h[p].resp.data.status = "completed"
        /\ h[p].resp.data.priority = "high"
        /\ h[p].resp.data.parent_id = 1

GetRoute == "GET /api/tasks/[id]"

\* the path id is a numeral: digits and nothing else
Numeric(id) ==
    IsStr(id) /\ id.s # <<>> /\ \A k \in 1..Len(id.s) : IsDigit(id.s[k])

\* the number a numeral denotes
NumeralValue(id) == DigitsPrefix(id.s, 0)

\* C18: a GET or a DELETE whose id is a positive integer that names no task
\* is answered 404 (500 when the store itself fails) with success = false
\* and the table is as it was; a request whose id is not a numeral is
\* answered 400 by the check of the id, before any query of the store.
C18_AbsentOrNotNumeric ==
    [][\A p \in Handlers : \A route \in {GetRoute, DeleteRoute} :
        Arrives(p, route) =>
            LET id == h'[p].req.id
            IN  /\ (/\ Numeric(id)
                    /\ NumeralValue(id) > 0
                    /\ NumeralValue(id) \notin DOMAIN tasks) =>
                        /\ h'[p].pc = "done"
                        /\ h'[p].resp.status \in {404, 500}
                        /\ ~h'[p].resp.success
                        /\ tasks' = tasks
                /\ ~Numeric(id) =>
                        /\ h'[p].pc = "done"
                        /\ h'[p].resp.status = 400
                        /\ h'[p].resp.error.msgs = <<"invalid_id">>
                        /\ tasks' = tasks]_vars

\* the id "1a" has been taken for the id of task 1: the task is returned
C18_Witness ==
    \E p \in Handlers :
        /\ h[p].pc = "done"
        /\ h[p].route = GetRoute
        /\ h[p].req.id = Str(<<"1", "a">>)
        /\ h[p].resp.status = 200
        /\ h[p].resp.data.id = 1

\* handler p ends DELETE /api/tasks/[id] with 200 in this step
DeleteSucceeds(p) ==
    /\ h[p].pc = "delete"
    /\ h'[p].pc = "done"
    /\ h'[p].resp.status = 200

\* C19: a DELETE of an id that names no task is answered 404 and deletes
\* nothing; a DELETE that is answered 200 has deleted the task, and the
\* field `deleted` of its response is the task as it was stored immediately
\* before the deletion.
C19_DeletedSnapshot ==
    [][\A p \in Handlers :
        /\ (/\ Arrives(p, DeleteRoute)
            /\ validateId(h'[p].req.id) # 0
            /\ validateId(h'[p].req.id) \notin DOMAIN tasks) =>
                /\ h'[p].pc = "done"
                /\ h'[p].resp.status = 404
                /\ tasks' = tasks
        /\ DeleteSucceeds(p) =>
            LET id == validateId(h'[p].req.id)
            IN  /\ id \in DOMAIN tasks
                /\ id \notin DOMAIN tasks'
                /\ h'[p].resp.data.deleted = tasks[id]]_vars

\* a task has been deleted and `deleted` holds its id and title only
C19_Witness ==
    \E p \in Handlers :
        /\ h[p].pc = "done"
        /\ h[p].route = DeleteRoute
        /\ h[p].resp.status = 200
        /\ h[p].resp.data.deleted.id \notin DOMAIN tasks
        /\ DOMAIN h[p].resp.data.deleted = {"id", "title"}
        /\ tasks # <<>>

\* the tasks whose parent_id is id
DirectChildren(t, id) == {i \in DOMAIN t : t[i].parent_id = id}

\* the list holds each task of `ids` once, as stored, and no other task, in
\* ascending order of created_at
ListsExactly(t, subtasks, ids) ==
    /\ Len(subtasks) = Cardinality(ids)
    /\ {subtasks[k].id : k \in 1..Len(subtasks)} = ids
    /\ \A k \in 1..Len(subtasks) : subtasks[k] = t[subtasks[k].id]
    /\ \A j, k \in 1..Len(subtasks) :
        j < k => subtasks[j].created_at <= subtasks[k].created_at

\* C20: a GET of an existing task is answered with that task and a list
\* `subtasks` that holds exactly the tasks whose parent_id is the id (its
\* direct children, not their children) in ascending order of created_at;
\* no step of the request changes a row.
C20_SubtasksAreChildren ==
    [][\A p \in Handlers :
        /\ Arrives(p, GetRoute) => tasks' = tasks
        /\ (h[p].pc = "subtasks" /\ h'[p].pc = "done") =>
            LET id == validateId(h'[p].req.id)
                data == h'[p].resp.data
            IN  /\ tasks' = tasks
                /\ h'[p].resp.status = 200
                /\ data.id = id
                /\ \A f \in DOMAIN tasks[id] : data[f] = tasks[id][f]
                /\ ListsExactly(tasks, data.subtasks, DirectChildren(tasks, id))]_vars

\* a task with children has been returned with an empty list of subtasks
C20_Witness ==
    \E p \in Handlers :
        /\ h[p].pc = "done"
        /\ h[p].route = GetRoute
        /\ h[p].resp.status = 200
        /\ h[p].resp.data.subtasks = <<>>
        /\ DirectChildren(tasks, h[p].resp.data.id) # {}

ListRoute == "GET /api/tasks"

\* the stored row passes the filters that the query string asks for
Wanted(row, query) ==
    /\ query.parent_id = Str(NullText) => row.parent_id = NULL
    /\ (query.parent_id # Undefined /\ query.parent_id # Str(NullText)) =>
            row.parent_id = DigitsPrefix(query.parent_id.s, 0)
    /\ (query.status # Undefined /\ query.status.tok \in TaskStatuses) =>
            row.status = query.status.tok
    /\ (query.priority # Undefined /\ query.priority.tok \in TaskPriorities) =>
            row.priority = query.priority.tok

\* C21: a GET /api/tasks that is answered 200 returns the stored rows that
\* pass every filter of its query string, each once and as stored, and no
\* other row: with parent_id=null the rows whose parent_id is null, with a
\* valid status the rows of that status, with several filters the rows that
\* pass all of them.  The table is as it was.
C21_ListFilters ==
    [][\A p \in Handlers :
        (Arrives(p, ListRoute) /\ h'[p].resp.status = 200) =>
            LET query == h'[p].req
                rows == h'[p].resp.data.items
            IN  /\ tasks' = tasks
                /\ {rows[k].id : k \in 1..Len(rows)}
                        = {i \in DOMAIN tasks : Wanted(tasks[i], query)}
                /\ \A k \in 1..Len(rows) : rows[k] = tasks[rows[k].id]
                /\ \A j, k \in 1..Len(rows) : j # k => rows[j].id # rows[k].id]_vars

\* a list filtered by status and parent_id=null has returned one of two rows
C21_Witness ==
    \E p \in Handlers :
        /\ h[p].pc = "done"
        /\ h[p].route = ListRoute
        /\ h[p].resp.status = 200
        /\ h[p].req.status = Tok("pending")
        /\ h[p].req.parent_id = Str(NullText)
        /\ Len(h[p].resp.data.items) = 1
        /\ Cardinality(DOMAIN tasks) = 2

\* the routes, and the methods each of them serves
Supported ==
    [r \in {"/api/tasks", "/api/tasks/[id]", "/api/tasks/breakdown"} |->
        CASE r = "/api/tasks" -> {"GET", "POST"}
          [] r = "/api/tasks/[id]" -> {"GET", "PATCH", "DELETE"}
          [] OTHER -> {"POST"}]

\* handler p has taken a request whose method its route does not serve
OtherMethodArrives(p, r) ==
    /\ Free(p)
    /\ h'[p] # h[p]
    /\ h'[p].pc = "done"
    /\ h'[p].route = r
    /\ h'[p].req.method \notin Supported[r]

\* C22: every request whose method its route does not serve is answered
\* 405 with an Allow header that lists the methods the route serves, and no
\* row is changed.
C22_AlwaysNotAllowed ==
    [][\A p \in Handlers : \A r \in DOMAIN Supported :
        OtherMethodArrives(p, r) =>
            /\ h'[p].resp.status = 405
            /\ h'[p].resp.allow = Supported[r]
            /\ tasks' = tasks]_vars

\* C22 as the handlers have it: /api/tasks/[id] checks the id before the
\* method, so an unserved method with an id that is no positive integer is
\* answered 400 without an Allow header; every other request with an
\* unserved method is answered 405 with the Allow header of its route.  No
\* row is changed.
C22_NotAllowedAfterId ==
    [][\A p \in Handlers : \A r \in DOMAIN Supported :
        OtherMethodArrives(p, r) =>
            /\ tasks' = tasks
            /\ ~h'[p].resp.success
            /\ IF r = "/api/tasks/[id]" /\ validateId(h'[p].req.id) = 0
               THEN /\ h'[p].resp.status = 400
                    /\ "allow" \notin DOMAIN h'[p].resp
               ELSE /\ h'[p].resp.status = 405
                    /\ h'[p].resp.allow = Supported[r]]_vars

\* a PUT on /api/tasks/a has been answered 400 while the table holds a task
C22_Witness ==
    \E p \in Handlers :
        /\ h[p].pc = "done"
        /\ h[p].route = "/api/tasks/[id]"
        /\ h[p].req.method = "PUT"
        /\ validateId(h[p].req.id) = 0
        /\ h[p].resp.status = 400
        /\ tasks # <<>>

\* the body {success, data, error} and the status of a response
Envelope(resp) ==
    /\ {"success", "data", "error", "status"} \subseteq DOMAIN resp
    /\ resp.success \in BOOLEAN
    /\ resp.success => resp.error = Null /\ resp.status \in {200, 201}
    /\ ~resp.success =>
        /\ resp.data = Null
        /\ resp.error.t = "string"
        /\ resp.error.msgs # <<>>
        /\ resp.status >= 400

\* a handler is serving a request: it waits for the store or the generator
Serving(p) == h[p].pc \notin {"idle", "done"}

\* C23: every request to a route ends with a response, and the response is
\* the envelope: success = TRUE with error = null and status 200 or 201, or
\* success = FALSE with data = null, a message and a status of 400 or more.
\* A request that waits for the store or for the generator is answered
\* also when the call fails.
C23_Envelope ==
    /\ [](\A p \in Handlers : h[p].pc = "done" => Envelope(h[p].resp))
    /\ \A p \in Handlers : Serving(p) ~> h[p].pc = "done"

\* a failure of the store in the last call of a request has been answered
\* 500 in the envelope
C23_Witness ==
    \E p \in Handlers :
        /\ h[p].pc = "done"
        /\ h[p].route = BreakdownRoute
        /\ "generator" \in DOMAIN h[p].req
        /\ h[p].req.generator.kind = "reply"
        /\ h[p].resp.status = 500
        /\ Envelope(h[p].resp)

(***************************************************************************)
(* The page (component Home).  h["home"] is the state of the component:    *)
(* the values of its useState hooks and, for every connection, the call of *)
(* a handler of the page that awaits the answer to a fetch, with the       *)
(* values of tasks and breakingDown its closure captured when it was       *)
(* called.                                                                 *)
(***************************************************************************)
home == h["home"]

NoCall == [fn |-> "none"]

\* a call of fn that awaits the answer of route `await`, made in the render
\* whose state is `state`
Call(fn, await, arg, state) ==
    [fn |-> fn, await |-> await, arg |-> arg,
     tasks |-> state.tasks, breakingDown |-> state.breakingDown]

\* useState([]), useState(true), useState(new Set()); the effect has not run
HomeInit ==
    [tasks |-> <<>>, loading |-> TRUE, breakingDown |-> {}, mounted |-> FALSE,
     calls |-> [p \in Handlers |-> NoCall]]

\* fetch(...): the request goes out over connection p and the call awaits
\* the answer; the component is left in `state`
Fetch(p, call, state) ==
    /\ home.calls[p].fn = "none"
    /\ Free(p)
    /\ h' = [h EXCEPT !["home"] = [state EXCEPT !.calls[p] = call], ![p] = Idle]
    /\ UNCHANGED <<tasks, nextId, apiKey>>

\* the call on connection p ends and leaves the component in `state`
Settle(p, state) ==
    /\ h' = [h EXCEPT !["home"] = [state EXCEPT !.calls[p] = NoCall]]
    /\ UNCHANGED <<tasks, nextId, apiKey>>

\* the request of the call on p has reached the route and is not yet served
Requested(p, await) ==
    /\ home.calls[p].fn # "none"
    /\ home.calls[p].await = await
    /\ h[p].pc = "idle"

\* await res.json(): the answer to the fetch of the call of fn on p is there
Answered(p, fn, await) ==
    /\ home.calls[p].fn = fn
    /\ home.calls[p].await = await
    /\ h[p].pc = "done"

\* organizeTasks: the ids of the root nodes in the order of the list, and
\* for every id of the list the ids of the children of its node
organizeTasks(taskList) ==
    LET ids == {taskList[i].id : i \in DOMAIN taskList}
        hasParent(task) == task.parent_id # NULL /\ task.parent_id \in ids
        idsOf(list) == [i \in DOMAIN list |-> list[i].id]
    IN  [rootTasks |-> idsOf(SelectSeq(taskList, LAMBDA t : ~hasParent(t))),
         children |->
            [id \in ids |->
                idsOf(SelectSeq(taskList,
                                LAMBDA t : hasParent(t) /\ t.parent_id = id))]]

\* renderTask: the ids of the nodes one call renders, the node and
\* recursively its children
RECURSIVE renderTask(_, _)
renderTask(organized, id) ==
    {id} \cup UNION {renderTask(organized, organized.children[id][k]) :
                        k \in DOMAIN organized.children[id]}

\* organizedTasks.map(task => renderTask(task)): the ids of the tasks on
\* the page
Rendered(taskList) ==
    LET organized == organizeTasks(taskList)
    IN  UNION {renderTask(organized, organized.rootTasks[k]) :
                    k \in DOMAIN organized.rootTasks}

\* the places in the list of the tasks the page shows with their buttons
Shown ==
    IF home.loading THEN {}
    ELSE {i \in DOMAIN home.tasks : home.tasks[i].id \in Rendered(home.tasks)}

\* setTasks(result.data || []) when the answer is a success; setLoading(false)
fetchTasksResult(state, result) ==
    [state EXCEPT !.tasks = IF result.success THEN result.data.items ELSE @,
                  !.loading = FALSE]

\* useEffect(() => { fetchTasks() }, [])
mount(p) ==
    /\ ~home.mounted
    /\ \A q \in Handlers : Free(q)
    /\ Fetch(p, Call("fetchTasks", "GET /api/tasks", Null, home),
             [home EXCEPT !.mounted = TRUE])

fetchTasksReturns(p) ==
    /\ Answered(p, "fetchTasks", "GET /api/tasks")
    /\ Settle(p, fetchTasksResult(home, h[p].resp))

\* addTask: the form is submitted with the text newTask
addTask(p, newTask) ==
    /\ home.mounted
    /\ Trim(newTask) # <<>>
    /\ Fetch(p, Call("addTask", "POST /api/tasks", Str(Trim(newTask)), home), home)

\* setTasks([result.data, ...tasks]) with the tasks of the closure
addTaskReturns(p) ==
    /\ Answered(p, "addTask", "POST /api/tasks")
    /\ LET result == h[p].resp
       IN  Settle(p, IF result.success
                     THEN [home EXCEPT !.tasks = <<result.data>> \o home.calls[p].tasks]
                     ELSE home)

\* updateTaskAndSubtasks: the task gets newStatus, and its direct children
\* get 'completed' when newStatus is 'completed'
updateTaskAndSubtasks(taskList, task, newStatus) ==
    [i \in DOMAIN taskList |->
        IF taskList[i].id = task.id
        THEN [taskList[i] EXCEPT !.status = newStatus]
        ELSE IF taskList[i].parent_id = task.id /\ newStatus = "completed"
        THEN [taskList[i] EXCEPT !.status = "completed"]
        ELSE taskList[i]]

\* toggleTask(task): the checkbox of a task on the page
toggleTask(p, i) ==
    /\ i \in Shown
    /\ LET task == home.tasks[i]
           newStatus == IF task.status = "completed" THEN "pending" ELSE "completed"
       IN  Fetch(p, Call("toggleTask", "PATCH /api/tasks/[id]",
                         [task |-> task, newStatus |-> newStatus], home), home)

toggleTaskReturns(p) ==
    /\ Answered(p, "toggleTask", "PATCH /api/tasks/[id]")
    /\ LET call == home.calls[p]
       IN  Settle(p, IF h[p].resp.success
                     THEN [home EXCEPT !.tasks =
                             updateTaskAndSubtasks(call.tasks, call.arg.task,
                                                   call.arg.newStatus)]
                     ELSE home)

\* filterTasks: the list without the task and without its direct children
filterTasks(taskList, id) ==
    SelectSeq(taskList, LAMBDA t : ~(t.id = id) /\ ~(t.parent_id = id))

\* deleteTask(task.id): the delete button of a task on the page, confirmed
deleteTask(p, i) ==
    /\ i \in Shown
    /\ Fetch(p, Call("deleteTask", "DELETE /api/tasks/[id]", home.tasks[i].id, home),
             home)

deleteTaskReturns(p) ==
    /\ Answered(p, "deleteTask", "DELETE /api/tasks/[id]")
    /\ LET call == home.calls[p]
       IN  Settle(p, IF h[p].resp.success
                     THEN [home EXCEPT !.tasks = filterTasks(call.tasks, call.arg)]
                     ELSE home)

\* finally: setBreakingDown(new Set(breakingDown) without task.id), with the
\* breakingDown of the closure
finalSet(call) == call.breakingDown \ {call.arg.id}

\* breakdownTask(task): the breakdown button of a task on the page, which is
\* disabled while the task is in breakingDown and when it is completed
breakdownTask(p, i) ==
    /\ i \in Shown
    /\ LET task == home.tasks[i]
       IN  /\ task.status # "completed"
           /\ task.id \notin home.breakingDown
           /\ Fetch(p, Call("breakdownTask", "POST /api/tasks/breakdown", task, home),
                    [home EXCEPT !.breakingDown = home.breakingDown \cup {task.id}])

\* the answer to the breakdown request: a success goes on to await
\* fetchTasks(), anything else ends the call
breakdownTaskReturns(p) ==
    /\ Answered(p, "breakdownTask", "POST /api/tasks/breakdown")
    /\ IF h[p].resp.success
       THEN /\ h' = [h EXCEPT !["home"].calls[p].await = "GET /api/tasks",
                              ![p] = Idle]
            /\ UNCHANGED <<tasks, nextId, apiKey>>
       ELSE Settle(p, [home EXCEPT !.breakingDown = finalSet(home.calls[p])])

\* fetchTasks() of breakdownTask has returned: the list, then finally
breakdownTaskRefetched(p) ==
    /\ Answered(p, "breakdownTask", "GET /api/tasks")
    /\ Settle(p, [fetchTasksResult(home, h[p].resp)
                    EXCEPT !.breakingDown = finalSet(home.calls[p])])


\* the requests of the page reach their routes
ServeList(p, up) ==
    /\ Requested(p, "GET /api/tasks")
    /\ ListTasks(p, Query(Undefined, Undefined, Undefined), up)
\* body: JSON.stringify({ title: newTask.trim(), status: 'pending' })
ServeAdd(p, up) ==
    /\ Requested(p, "POST /api/tasks")
    /\ CreateBegin(p, Body(home.calls[p].arg, Undefined, Tok("pending"),
                           Undefined, Undefined), up)
\* `/api/tasks/${task.id}`, body: JSON.stringify({ status: newStatus })
ServeToggle(p, up) ==
    /\ Requested(p, "PATCH /api/tasks/[id]")
    /\ PatchBegin(p, IdText(home.calls[p].arg.task.id),
                  Body(Undefined, Undefined, Tok(home.calls[p].arg.newStatus),
                       Undefined, Undefined), up)
ServeDelete(p, up) ==
    /\ Requested(p, "DELETE /api/tasks/[id]")
    /\ DeleteBegin(p, IdText(home.calls[p].arg), up)
\* body: JSON.stringify({ taskId: task.id })
ServeBreakdown(p, up) ==
    /\ Requested(p, "POST /api/tasks/breakdown")
    /\ BreakdownBegin(p, [taskId |-> Num(home.calls[p].arg.id),
                          taskTitle |-> Undefined], up)

\* the largest id of a row made through the routes before the page is opened
PageMaxId == 3
\* the page adds a task or breaks one down while the id sequence is at most
\* this
PageAddMaxId == 2
\* the requests that fill the table before the page is opened
SeedCreateBodies ==
    {Body(Str(<<"t">>), Undefined, Undefined, Undefined, pv) :
        pv \in {Undefined, Num(1), Num(2)}}
SeedPatchBodies ==
    {Body(Undefined, Undefined, Undefined, Undefined, Num(i)) : i \in 1..PageMaxId}
PageOutcomes == {GeneratorError, ReadReply}

InitPage ==
    /\ tasks = <<>>
    /\ nextId = 1
    /\ apiKey = TRUE
    /\ h = [p \in Handlers \cup {"home"} |-> IF p = "home" THEN HomeInit ELSE Idle]

\* One page, one call at a time, over a table filled through the routes
\* before the page is opened.
NextPage ==
    \/ ~home.mounted /\ nextId <= PageMaxId
       /\ \E body \in SeedCreateBodies : CreateBegin("h1", body, TRUE)
    \/ CreateInsert("h1", TRUE)
    \/ ~home.mounted
       /\ \E id \in 1..PageMaxId, body \in SeedPatchBodies :
            PatchBegin("h1", IdText(id), body, TRUE)
    \/ \E up \in {TRUE, ~home.mounted} : PatchUpdate("h1", up)
    \/ mount("h1")
    \/ \E up \in BOOLEAN : ServeList("h1", up)
    \/ fetchTasksReturns("h1")
    \/ nextId <= PageAddMaxId /\ addTask("h1", <<"t">>)
    \/ \E up \in BOOLEAN : ServeAdd("h1", up)
    \/ addTaskReturns("h1")
    \/ \E i \in Shown : toggleTask("h1", i)
    \/ \E up \in BOOLEAN : ServeToggle("h1", up)
    \/ toggleTaskReturns("h1")
    \/ \E i \in Shown : deleteTask("h1", i)
    \/ \E up \in BOOLEAN : ServeDelete("h1", up)
    \/ \E up \in BOOLEAN : DeleteExec("h1", up)
    \/ deleteTaskReturns("h1")
    \/ nextId <= PageAddMaxId /\ \E i \in Shown : breakdownTask("h1", i)
    \/ \E up \in BOOLEAN : ServeBreakdown("h1", up)
    \/ \E outcome \in PageOutcomes : BreakdownGenerate("h1", outcome)
    \/ \E up \in BOOLEAN : BreakdownInsert("h1", up)
    \/ breakdownTaskReturns("h1")
    \/ breakdownTaskRefetched("h1")

SpecPage == InitPage /\ [][NextPage]_vars

\* the page breaks a task down while the id sequence is at most this
RaceMaxId == 3

\* One page whose calls overlap: a handler of the page is called while
\* other calls await their answers, each call on a connection of its own.
NextRace ==
    \E p \in Handlers :
        \/ mount(p)
        \/ ServeList(p, TRUE)
        \/ fetchTasksReturns(p)
        \/ nextId <= PageAddMaxId /\ addTask(p, <<"t">>)
        \/ ServeAdd(p, TRUE)
        \/ addTaskReturns(p)
        \/ nextId <= RaceMaxId /\ \E i \in Shown : breakdownTask(p, i)
        \/ ServeBreakdown(p, TRUE)
        \/ \E outcome \in PageOutcomes : BreakdownGenerate(p, outcome)
        \/ BreakdownInsert(p, TRUE)
        \/ breakdownTaskReturns(p)
        \/ breakdownTaskRefetched(p)

SpecRace == InitPage /\ [][NextRace]_vars

(***************************************************************************)
(* Properties of the page.                                                 *)
(***************************************************************************)
\* the ids of the tasks of a list
IdsOf(taskList) == {taskList[i].id : i \in DOMAIN taskList}

\* the ids of `ids` and of every task of the list below one of them
RECURSIVE Under(_, _)
Under(taskList, ids) ==
    LET more == ids \cup {taskList[i].id :
                            i \in {k \in DOMAIN taskList : taskList[k].parent_id \in ids}}
    IN  IF more = ids THEN ids ELSE Under(taskList, more)

\* deleteTask on connection p ends with a success; the table now holds the
\* tasks the page listed when the button was pressed, without the task and
\* everything below it
DeleteSettles(p) ==
    /\ Answered(p, "deleteTask", "DELETE /api/tasks/[id]")
    /\ h[p].resp.success
    /\ home'.calls[p].fn = "none"
    /\ DOMAIN tasks =
        IdsOf(home.calls[p].tasks) \ Under(home.calls[p].tasks, {home.calls[p].arg})

\* C24: after a successful deleteTask(id) on a page whose list held the
\* tasks of the table, the list of the page holds the ids of the table and
\* no other, whatever the depth of the hierarchy below the deleted task.
C24_ListMatchesStore ==
    [][\A p \in Handlers : DeleteSettles(p) => IdsOf(home'.tasks) = DOMAIN tasks']_vars

\* a task with a child and a grandchild was deleted, and the page still
\* lists a task that the table no longer has
C24_Witness ==
    /\ home.calls["h1"].fn = "none"
    /\ h["h1"].pc = "done"
    /\ h["h1"].route = "DELETE /api/tasks/[id]"
    /\ h["h1"].resp.success
    /\ tasks = <<>>
    /\ IdsOf(home.tasks) # {}

\* toggleTask on connection p ends with a success; before it the table had
\* every task of the page with the status the page showed
ToggleSettles(p) ==
    /\ Answered(p, "toggleTask", "PATCH /api/tasks/[id]")
    /\ h[p].resp.success
    /\ home'.calls[p].fn = "none"
    /\ LET call == home.calls[p]
       IN  \A i \in DOMAIN call.tasks :
            /\ call.tasks[i].id \in DOMAIN tasks
            /\ call.tasks[i].id # call.arg.task.id =>
                    tasks[call.tasks[i].id].status = call.tasks[i].status

\* the status of every task of the page is the status of its row
StatusesMatch(taskList, t) ==
    \A i \in DOMAIN taskList :
        taskList[i].id \in DOMAIN t => t[taskList[i].id].status = taskList[i].status

\* C25: after a successful toggleTask(task) on a page that showed the
\* statuses of the table, every task of the page has the status of its row.
C25_StatusesMatchStore ==
    [][\A p \in Handlers : ToggleSettles(p) => StatusesMatch(home'.tasks, tasks')]_vars

\* a task with a child was completed on the page: the page shows the child
\* completed and its row is pending
C25_Witness ==
    /\ home.calls["h1"].fn = "none"
    /\ h["h1"].pc = "done"
    /\ h["h1"].route = "PATCH /api/tasks/[id]"
    /\ h["h1"].resp.success
    /\ \E i \in DOMAIN home.tasks :
        /\ home.tasks[i].id \in DOMAIN tasks
        /\ home.tasks[i].parent_id = h["h1"].resp.data.id
        /\ home.tasks[i].status = "completed"
        /\ tasks[home.tasks[i].id].status = "pending"

\* the connections whose call is a breakdown of the task id
InFlight(id) ==
    {p \in Handlers : home.calls[p].fn = "breakdownTask" /\ home.calls[p].arg.id = id}

\* C26: while a breakdown of a task is in flight the task is in
\* breakingDown, and no task has two breakdowns in flight, also when
\* breakdowns of other tasks begin and end in between.
C26_OneBreakdownInFlight ==
    \A p \in Handlers :
        home.calls[p].fn = "breakdownTask" =>
            /\ home.calls[p].arg.id \in home.breakingDown
            /\ Cardinality(InFlight(home.calls[p].arg.id)) = 1

\* two breakdowns of one task are in flight at once
C26_Witness ==
    \E p, q \in Handlers :
        /\ p # q
        /\ home.calls[p].fn = "breakdownTask"
        /\ home.calls[q].fn = "breakdownTask"
        /\ home.calls[p].arg.id = home.calls[q].arg.id

\* the number of places of id in the forest of the list: among the roots and
\* among the children of every node
Places(taskList, id) ==
    LET organized == organizeTasks(taskList)
        slots == (DOMAIN organized.children) \X (1..Len(taskList))
    IN  Cardinality({k \in DOMAIN organized.rootTasks : organized.rootTasks[k] = id})
        + Cardinality({s \in slots :
                        /\ s[2] \in DOMAIN organized.children[s[1]]
                        /\ organized.children[s[1]][s[2]] = id})

\* C27: organizeTasks puts every task of the list the page holds at one
\* place of the forest, and every task is rendered from some root.
C27_EveryTaskRendered ==
    \A id \in IdsOf(home.tasks) :
        /\ Places(home.tasks, id) = 1
        /\ id \in Rendered(home.tasks)

\* the page has loaded a list whose tasks are on a cycle of parents: the
\* list is not empty and the forest has no root
C27_Witness ==
    /\ ~home.loading
    /\ home.tasks # <<>>
    /\ IdsOf(home.tasks) = DOMAIN tasks
    /\ organizeTasks(home.tasks).rootTasks = <<>>

=============================================================================
